---- MODULE Spec2Model ----
(***************************************************************************)
(* Model of the TEN31 Pass request behaviors (src/src/index.ts, the        *)
(* request-behavior module at lines 653-1070): PopupBehavior.call with its *)
(* message listener, close-detection poll and overlay, and                 *)
(* RedirectBehavior with its recoverable-state store and redirect-response *)
(* matcher.                                                                *)
(*                                                                         *)
(* Strings are sequences of tokens: a token is a character or an           *)
(* indivisible word, so <<"grant-for-app-", "42">> is the string           *)
(* grant-for-app-42 and << >> is the empty string.  Objects are functions  *)
(* from keys (strings) to values (strings).                                *)
(*                                                                         *)
(* One step of the model is one task of the page's event loop together     *)
(* with the microtasks it queues (the promise's finally callback runs in   *)
(* the microtask checkpoint of the task that settled the promise).         *)
(***************************************************************************)
EXTENDS FiniteSets, Integers, Sequences, TLC

VARIABLES
    isIOSPlatform, \* utils.ts isIOS(): the platform cannot focus a popup
    store,         \* window.sessionStorage[STORAGE_KEY]: request id -> state
    windows,       \* the child browsing contexts opened so far (handles)
    forms,         \* the form submissions made so far, in order
    listeners,     \* the window's 'message' listeners, in registration order
    req,           \* per request: the locals of one PopupBehavior.call
    last,          \* the task that ran last, with its input and result
    href,          \* location.href
    referrer,      \* the origin of document.referrer, "" without referrer
    history,       \* window.history: its length and the current entry's state
    assigned,      \* the URLs passed to location.assign so far, in order
    requested      \* the arguments of the latest Ten31PassApi.requestGrants, and
                   \* the response the provider sent the page back with

popupVars == <<isIOSPlatform, store, windows, forms, listeners, req, last>>
pageVars == <<href, referrer, history, assigned, requested>>
vars == <<isIOSPlatform, store, windows, forms, listeners, req, last,
          href, referrer, history, assigned, requested>>

(***************************************************************************)
(* Bounds                                                                  *)
(***************************************************************************)
\* how many child browsing contexts the browser lets the page open
MaxWindows == 2

\* the navigations (form submissions into the page, location.assign) a page
\* starts before it is unloaded
MaxNavigations == 2

\* the requests (calls of PopupBehavior.call) of one page
Requests == {1}

(***************************************************************************)
(* Strings and objects                                                     *)
(***************************************************************************)
Str(t) == <<t>>

EmptyObject == [k \in {} |-> << >>]

\* delete object[key]
DeleteKey(object, key) == [k \in (DOMAIN object) \ {key} |-> object[k]]

\* { ...object, [key]: value }
SetKey(object, key, value) ==
    [k \in (DOMAIN object) \cup {key} |-> IF k = key THEN value ELSE object[k]]

\* JavaScript truthiness of object[key], for string values: the key is there
\* and its value is not the empty string
Truthy(object, key) == key \in DOMAIN object /\ object[key] # << >>

\* string.indexOf(part, from): the first index at or after from where part
\* occurs in string, 0 when there is none
RECURSIVE IndexFrom(_, _, _)
IndexFrom(string, part, from) ==
    IF from + Len(part) - 1 > Len(string)
    THEN 0
    ELSE IF SubSeq(string, from, from + Len(part) - 1) = part
    THEN from
    ELSE IndexFrom(string, part, from + 1)

IndexOf(string, part) == IndexFrom(string, part, 1)

\* string with the tokens from..to cut out
Cut(string, from, to) ==
    SubSeq(string, 1, from - 1) \o SubSeq(string, to + 1, Len(string))

\* string.split(separator), separator a single token
RECURSIVE Split(_, _)
Split(string, separator) ==
    LET i == IndexOf(string, <<separator>>)
    IN  IF i = 0
        THEN <<string>>
        ELSE <<SubSeq(string, 1, i - 1)>>
             \o Split(SubSeq(string, i + 1, Len(string)), separator)

(***************************************************************************)
(* Program constants                                                       *)
(***************************************************************************)
\* enum ResponseType
POST_MESSAGE == "post-message"
REDIRECT == "redirect"
IMMEDIATE_REDIRECT == "immediate-redirect"
\* options?.preferredResponseType left out by the caller
NoResponseType == "undefined"

\* enum ResponseStatus
Success == Str("Success")
Error == Str("Error")
InvalidRequest == Str("InvalidRequest")
Unknown == Str("Unknown")

EventKey == Str("event")
StatusKey == Str("status")

\* new URL(this.endpoint).origin, and the origin of some other sender
EndpointOrigin == "https://pass.ten31.com"
ForeignOrigin == "https://evil.example"

\* the messages of the errors the module throws or rejects with
PopupFailedToOpen == "TEN31 Pass popup failed to open."
ExpectedResponseMissing == "TEN31 Pass did not return expected response."
RequestRejected == "TEN31 Pass rejected request with error: "
PopupClosed == "TEN31 Pass popup closed"
NoError == ""

(***************************************************************************)
(* Key specifications: an exact name, or a pattern.  The patterns are the  *)
(* ones of the shape /^<prefix>.+$/ that the API passes                    *)
(* (/^grant-for-app-.+$/, /^grant-for-service-.+$/).                       *)
(***************************************************************************)
Name(s) == [regexp |-> FALSE, text |-> s]
Pattern(prefix) == [regexp |-> TRUE, text |-> prefix]

IsPrefix(p, s) == Len(p) <= Len(s) /\ SubSeq(s, 1, Len(p)) = p

\* key.match(pattern)?.[0] for the pattern /^<prefix>.+$/: the match, which
\* is the whole key, or no match
RegExpMatch(pattern, key) ==
    IF IsPrefix(pattern.text, key) /\ Len(key) > Len(pattern.text)
    THEN [found |-> TRUE, match |-> key]
    ELSE [found |-> FALSE, match |-> << >>]

\* key.match(requiredKey)?.[0] === key
MatchesWholeKey(pattern, key) ==
    LET m == RegExpMatch(pattern, key) IN m.found /\ m.match = key

(***************************************************************************)
(* The promise returned by PopupBehavior.call                              *)
(***************************************************************************)
NoPromise == [state |-> "none", value |-> EmptyObject, error |-> NoError, cause |-> << >>]
PendingPromise == [NoPromise EXCEPT !.state = "pending"]

\* resolve(value): settles a pending promise, does nothing otherwise
Resolve(promise, value) ==
    IF promise.state = "pending"
    THEN [promise EXCEPT !.state = "resolved", !.value = value]
    ELSE promise

\* Mutant of Reject: a rejection overwrites a settled promise.
RejectOverwrites(promise, message, cause) ==
    [promise EXCEPT !.state = "rejected", !.value = EmptyObject,
                    !.error = message, !.cause = cause]

\* reject(new Error(message, { cause: new Error(cause) }))
Reject(promise, message, cause) ==
    IF promise.state = "pending"
    THEN [promise EXCEPT !.state = "rejected", !.error = message, !.cause = cause]
    ELSE promise

(***************************************************************************)
(* The overlay element                                                     *)
(***************************************************************************)
NoOverlay == [created |-> FALSE, inDom |-> FALSE, opacity |-> "0",
              fadeInTimer |-> FALSE, removeTimer |-> FALSE]

\* appendPopupOverlay: the element is appended with opacity 0 and a timer is
\* set that fades it in
AppendedOverlay == [created |-> TRUE, inDom |-> TRUE, opacity |-> "0",
                    fadeInTimer |-> TRUE, removeTimer |-> FALSE]

\* removeOverlay(overlay): fade out now, leave the DOM after the fade
RemoveOverlay(overlay) == [overlay EXCEPT !.opacity = "0", !.removeTimer = TRUE]

(***************************************************************************)
(* The Recoverable-State Store (RedirectBehavior, static)                  *)
(***************************************************************************)
\* A JavaScript value: its type and its literal.  The store variable holds
\* the object that JSON.parse(sessionStorage[STORAGE_KEY] || '{}') yields.
Js(type, literal) == [type |-> type, literal |-> literal]
JsNull == Js("null", "null")
JsUndefined == Js("undefined", "undefined")
JsNaN == Js("number", "NaN")

\* the values that are not truthy
Falsy == {Js("string", ""), Js("number", "0"), JsNaN, Js("boolean", "false"), JsNull,
          JsUndefined}

\* JSON.parse(JSON.stringify(object)): a property that is undefined is left
\* out, NaN becomes null
JsonStringify(object) ==
    [key \in {k \in DOMAIN object : object[k] # JsUndefined} |->
        IF object[key] = JsNaN THEN JsNull ELSE object[key]]

\* Mutant of SetRecoverableState: the stored object is replaced, not merged.
SetRecoverableStateOnly(stored, requestId, recoverableState) ==
    JsonStringify(SetKey(EmptyObject, requestId, recoverableState))

\* sessionStorage[STORAGE_KEY] = JSON.stringify({ ...stored, [requestId]: state })
SetRecoverableState(stored, requestId, recoverableState) ==
    JsonStringify(SetKey(stored, requestId, recoverableState))

\* JSON.parse(sessionStorage[STORAGE_KEY] || '{}')[requestId] || null
GetRecoverableState(stored, requestId) ==
    IF requestId \in DOMAIN stored /\ stored[requestId] \notin Falsy
    THEN stored[requestId]
    ELSE JsNull

(***************************************************************************)
(* Inputs of PopupBehavior.call                                            *)
(***************************************************************************)
RequestUrl == "https://pass.ten31.com/grants/request"
ResponseEvent == Str("grant-response")
OtherEvent == Str("other-event")

AppKey == Str("app")
GrantForApp == Str("grant-for-app-")
GrantKey == <<"grant-for-app-", "42">>

\* options.responseFilter: left out, or one of two caller-supplied filters
NoFilter == "undefined"
AcceptAll == "(message) => true"
SuccessOnly == "(message) => message.status === 'Success'"

\* the caller's filter, applied to a response message
ResponseFilter(filter, responseMessage) ==
    IF filter = AcceptAll
    THEN TRUE
    ELSE StatusKey \in DOMAIN responseMessage /\ responseMessage[StatusKey] = Success

\* options.requiredKeys: left out, or a list of key specifications
NoRequiredKeys == [defined |-> FALSE, keys |-> << >>]
RequiredKeys(keys) == [defined |-> TRUE, keys |-> keys]

RequestIds == {<<"42", "_", "s1">>}
RecoverableStates == {Js("string", "state-1")}

MessageOptions ==
    [preferredResponseType : {POST_MESSAGE},
     hasData : BOOLEAN,
     overlay : BOOLEAN,
     responseEvent : {ResponseEvent},
     responseFilter : {NoFilter, AcceptAll, SuccessOnly},
     requiredKeys : {NoRequiredKeys, RequiredKeys(<<Name(AppKey)>>),
                     RequiredKeys(<<Pattern(GrantForApp)>>),
                     RequiredKeys(<<Name(AppKey), Pattern(GrantForApp)>>)},
     hasRecoverableState : BOOLEAN,
     requestId : RequestIds,
     recoverableState : RecoverableStates]

\* Mutant of RequestData: the preferred response type is not added.
RequestDataWithoutHint(options) ==
    [defined |-> options.hasData \/ options.preferredResponseType # NoResponseType,
     payload |-> options.hasData,
     preferred_response_type |-> NoResponseType]

\* the data posted into the popup:
\* data || preferredResponseType ? { ...data, preferred_response_type } : undefined
RequestData(options) ==
    [defined |-> options.hasData \/ options.preferredResponseType # NoResponseType,
     payload |-> options.hasData,
     preferred_response_type |-> options.preferredResponseType]

(***************************************************************************)
(* The messages the window can receive                                     *)
(***************************************************************************)
\* the objects built from an optional event, an optional status and the
\* optional fields app and grant-for-app-42
Field(key, values) == {EmptyObject} \cup {SetKey(EmptyObject, key, v) : v \in values}

Merge(a, b) == [k \in (DOMAIN a) \cup (DOMAIN b) |-> IF k \in DOMAIN a THEN a[k] ELSE b[k]]

MessageData ==
    {Merge(Merge(e, s), Merge(a, g)) :
        e \in Field(EventKey, {ResponseEvent, OtherEvent}),
        s \in Field(StatusKey, {<< >>, Success, Error, InvalidRequest, Unknown}),
        a \in Field(AppKey, {Str("42")}),
        g \in Field(GrantKey, {Str("abc")})}

\* a MessageEvent: its origin and its data (an object, or null or a primitive)
Messages ==
    [origin : {EndpointOrigin, ForeignOrigin}, isObject : {TRUE}, data : MessageData]
    \cup [origin : {EndpointOrigin, ForeignOrigin}, isObject : {FALSE}, data : {EmptyObject}]

NoMessage == [origin |-> "", isObject |-> FALSE, data |-> EmptyObject]

\* a few messages, one of each kind the listener tells apart
Response(status, fields) ==
    [origin |-> EndpointOrigin, isObject |-> TRUE,
     data |-> Merge(SetKey(SetKey(EmptyObject, EventKey, ResponseEvent), StatusKey, status),
                    fields)]

SomeMessages ==
    {Response(Success, SetKey(EmptyObject, AppKey, Str("42"))),
     Response(Success, SetKey(EmptyObject, GrantKey, Str("abc"))),
     Response(InvalidRequest, EmptyObject),
     Response(Error, EmptyObject),
     Response(Unknown, EmptyObject),
     [Response(Success, SetKey(EmptyObject, AppKey, Str("42"))) EXCEPT !.origin = ForeignOrigin],
     [Response(Success, SetKey(EmptyObject, AppKey, Str("42")))
         EXCEPT !.data = DeleteKey(@, StatusKey)],
     [Response(Success, SetKey(EmptyObject, AppKey, Str("42")))
         EXCEPT !.data = SetKey(@, EventKey, OtherEvent)]}

(***************************************************************************)
(* PopupBehavior.call: the locals of one call                              *)
(***************************************************************************)
NoOptions ==
    [preferredResponseType |-> NoResponseType, hasData |-> FALSE, overlay |-> FALSE,
     responseEvent |-> ResponseEvent, responseFilter |-> NoFilter,
     requiredKeys |-> NoRequiredKeys, hasRecoverableState |-> FALSE,
     requestId |-> <<"42", "_", "s1">>, recoverableState |-> Js("string", "state-1")]

\* phase: "idle" (not called), "thrown" (the call threw), "returned" (it
\* returned void) or "promised" (it returned the promise)
IdleRequest ==
    [phase |-> "idle", options |-> NoOptions, thrown |-> NoError,
     popup |-> 0, overlay |-> NoOverlay, listening |-> FALSE,
     closeCheckInterval |-> FALSE, overlayCheckInterval |-> FALSE,
     onCallbackError |-> FALSE,
     promise |-> NoPromise, finallyRan |-> FALSE]

(***************************************************************************)
(* onPopupMessage                                                          *)
(***************************************************************************)
\* Mutant of IsResponseMessage: the sender's origin is not tested.
IsResponseMessageFromAnyone(options, message) ==
    /\ message.isObject
    /\ EventKey \in DOMAIN message.data
    /\ message.data[EventKey] = options.responseEvent

\* the listener's first test: the sender's origin, the shape of the data
\* and the event name
IsResponseMessage(options, message) ==
    /\ message.origin = EndpointOrigin
    /\ message.isObject
    /\ EventKey \in DOMAIN message.data
    /\ message.data[EventKey] = options.responseEvent

\* Mutant of IgnoredByDefault: only Error is ignored, Unknown is not.
IgnoredByDefaultOnlyError(responseMessage) ==
    /\ StatusKey \in DOMAIN responseMessage
    /\ responseMessage[StatusKey] = Error

\* the default filter:
\* [ResponseStatus.Error, ResponseStatus.Unknown].includes(responseMessage.status)
IgnoredByDefault(responseMessage) ==
    /\ StatusKey \in DOMAIN responseMessage
    /\ responseMessage[StatusKey] \in {Error, Unknown}

\* Mutant of FilteredOut: the default rule is applied after the caller's
\* filter too.
FilteredOutByDefaultToo(options, responseMessage) ==
    \/ IgnoredByDefault(responseMessage)
    \/ options.responseFilter # NoFilter
          /\ ~ResponseFilter(options.responseFilter, responseMessage)

\* the listener's second test: the message is dropped
FilteredOut(options, responseMessage) ==
    IF options.responseFilter # NoFilter
    THEN ~ResponseFilter(options.responseFilter, responseMessage)
    ELSE IgnoredByDefault(responseMessage)

\* the test inside requiredKeys.some(...): the required key is not there
RequiredKeyMissing(requiredKey, responseMessage) ==
    IF ~requiredKey.regexp
    THEN requiredKey.text \notin DOMAIN responseMessage
    ELSE ~\E key \in DOMAIN responseMessage : MatchesWholeKey(requiredKey, key)

\* Mutant of IsUnexpectedResponse: every status but Success is unexpected.
IsUnexpectedUnlessSuccess(options, responseMessage) ==
    \/ ~Truthy(responseMessage, StatusKey)
    \/ responseMessage[StatusKey] # Success
    \/ /\ options.requiredKeys.defined
       /\ \E i \in 1..Len(options.requiredKeys.keys) :
              RequiredKeyMissing(options.requiredKeys.keys[i], responseMessage)

\* the condition of the first rejection
IsUnexpectedResponse(options, responseMessage) ==
    \/ ~Truthy(responseMessage, StatusKey)
    \/ /\ responseMessage[StatusKey] = Success
       /\ options.requiredKeys.defined
       /\ \E i \in 1..Len(options.requiredKeys.keys) :
              RequiredKeyMissing(options.requiredKeys.keys[i], responseMessage)

\* Mutant of ExposedResponse: the status is not deleted.
ExposedResponseWithStatus(responseMessage) == responseMessage

\* the object the promise resolves with: delete responseMessage.status
ExposedResponse(responseMessage) == DeleteKey(responseMessage, StatusKey)

\* the three-way branch that settles the promise
SettleByMessage(promise, options, responseMessage) ==
    IF IsUnexpectedResponse(options, responseMessage)
    THEN Reject(promise, ExpectedResponseMissing, << >>)
    ELSE IF responseMessage[StatusKey] # Success
    THEN Reject(promise, RequestRejected, responseMessage[StatusKey])
    ELSE Resolve(promise, ExposedResponse(responseMessage))

\* Mutant of Finally: the close check is not cleared.
FinallyKeepsCloseCheck(rq) ==
    [rq EXCEPT !.listening = FALSE,
               !.overlay = IF rq.overlay.created THEN RemoveOverlay(rq.overlay) ELSE @,
               !.finallyRan = TRUE]

\* the promise's finally callback
Finally(rq) ==
    [rq EXCEPT !.listening = FALSE,
               !.closeCheckInterval = FALSE,
               !.overlay = IF rq.overlay.created THEN RemoveOverlay(rq.overlay) ELSE @,
               !.finallyRan = TRUE]

\* the microtask checkpoint after a task: the finally callback runs if the
\* task settled the promise
RunMicrotasks(before, after) ==
    IF before.promise.state = "pending" /\ after.promise.state # "pending"
    THEN Finally(after)
    ELSE after

\* One run of the listener of request rq on a message.  The listener changes
\* the event's data in place (delete data.event, delete data.status), so the
\* data is part of the result.
OnPopupMessage(rq, message) ==
    IF ~IsResponseMessage(rq.options, message)
    THEN [rq |-> rq, message |-> message, filterCalled |-> FALSE]
    ELSE LET responseMessage == DeleteKey(message.data, EventKey)
             filterCalled == rq.options.responseFilter # NoFilter
         IN  IF FilteredOut(rq.options, responseMessage)
             THEN [rq |-> rq,
                   message |-> [message EXCEPT !.data = responseMessage],
                   filterCalled |-> filterCalled]
             ELSE LET promise == SettleByMessage(rq.promise, rq.options, responseMessage)
                      resolves == ~IsUnexpectedResponse(rq.options, responseMessage)
                                  /\ responseMessage[StatusKey] = Success
                  IN  [rq |-> RunMicrotasks(rq, [rq EXCEPT !.promise = promise]),
                       message |-> [message EXCEPT !.data =
                                        IF resolves THEN ExposedResponse(responseMessage)
                                        ELSE responseMessage],
                       filterCalled |-> filterCalled]

\* The dispatch of a message event to the listeners, in registration order.
RECURSIVE DispatchMessage(_, _, _)
DispatchMessage(order, requests, message) ==
    IF order = << >>
    THEN [req |-> requests, filterCalled |-> {}]
    ELSE LET r == Head(order)
             one == OnPopupMessage(requests[r], message)
             rest == DispatchMessage(Tail(order), [requests EXCEPT ![r] = one.rq],
                                     one.message)
         IN  [req |-> rest.req,
              filterCalled |-> rest.filterCalled
                               \cup (IF one.filterCalled THEN {r} ELSE {})]

\* the listeners still registered, in registration order
Registered(order, requests) == SelectSeq(order, LAMBDA r : requests[r].listening)

(***************************************************************************)
(* Windows and forms                                                       *)
(***************************************************************************)
\* window.open returns a handle or, when the browser blocks the popup, null
WindowOpenOutcomes == IF Len(windows) < MaxWindows THEN {TRUE, FALSE} ELSE {FALSE}

\* PopupBehavior.createPopup(url), when the browser opens the window
CreatePopup(opened, url) == Append(opened, [closed |-> FALSE, url |-> url])

\* popup.close()
ClosePopup(opened, handle) == [opened EXCEPT ![handle].closed = TRUE]

\* Mutant of PostRequest: the form is submitted into the page itself.
PostRequestIntoPage(submitted, url, data, target) ==
    Append(submitted, [url |-> url, data |-> data, target |-> 0])

\* utils.ts postRequest(url, data, target): a hidden form is submitted into
\* the target
PostRequest(submitted, url, data, target) ==
    Append(submitted, [url |-> url, data |-> data, target |-> target])

\* what a call of getRedirectResponse returns or throws
Returned(response) == [outcome |-> "returned", isNull |-> FALSE, response |-> response,
                       error |-> NoError, cause |-> << >>]
ReturnedNull == [Returned(EmptyObject) EXCEPT !.isNull = TRUE]
Thrown(message, cause) == [outcome |-> "thrown", isNull |-> FALSE, response |-> EmptyObject,
                           error |-> message, cause |-> cause]

\* the arguments, the address and the result of a call of getRedirectResponse
NoOrigin == ""
NoCall == [event |-> << >>, requiredKeys |-> << >>, optionalKeys |-> << >>,
           origin |-> NoOrigin, href |-> << >>, result |-> ReturnedNull]

\* the request id and the value of a call of the store: the value written, or
\* the value read
NoState == [requestId |-> << >>, value |-> JsUndefined]

\* the task that ran last: a request's, a message's, or a call of the page
\* into the library.  effects lists the side effects a call started, in the
\* order of its statements, thrown the error it threw, arguments
\* the arguments of a RedirectBehavior.call or PopupBehavior.call.
Task(op, r, message, filterCalled) ==
    [op |-> op, request |-> r, message |-> message, filterCalled |-> filterCalled,
     matched |-> NoCall, state |-> NoState, effects |-> << >>, thrown |-> NoError,
     arguments |-> << >>]

(***************************************************************************)
(* PopupBehavior.call                                                      *)
(***************************************************************************)
VoidOptions ==
    [preferredResponseType : {NoResponseType, REDIRECT, IMMEDIATE_REDIRECT},
     hasData : BOOLEAN,
     overlay : BOOLEAN,
     responseEvent : {ResponseEvent},
     responseFilter : {NoFilter},
     requiredKeys : {NoRequiredKeys},
     hasRecoverableState : BOOLEAN,
     requestId : RequestIds,
     recoverableState : RecoverableStates]

CallOptions == MessageOptions \cup VoidOptions

\* the request after a call that got its popup: the overlay, and either the
\* overlay's close check (no response expected) or listener, close check and
\* error callback of the promise
CalledRequest(rq, options, handle) ==
    LET overlay == IF options.overlay THEN AppendedOverlay ELSE NoOverlay
        opened == [rq EXCEPT !.options = options, !.popup = handle, !.overlay = overlay]
    IN  IF options.preferredResponseType # POST_MESSAGE
        THEN [opened EXCEPT !.phase = "returned",
                            !.overlayCheckInterval = overlay.created]
        ELSE [opened EXCEPT !.phase = "promised",
                            !.promise = PendingPromise,
                            !.listening = TRUE,
                            !.closeCheckInterval = TRUE,
                            !.onCallbackError = TRUE]

\* Mutant of FailedRequest: the overlay is appended before the popup is
\* opened, and stays when the call throws.
FailedRequestWithOverlay(rq, options) ==
    [rq EXCEPT !.phase = "thrown", !.options = options, !.thrown = PopupFailedToOpen,
               !.overlay = IF options.overlay THEN AppendedOverlay ELSE NoOverlay]

\* the request after a call that threw in createPopup: nothing after the
\* throw has run
FailedRequest(rq, options) ==
    [rq EXCEPT !.phase = "thrown", !.options = options, !.thrown = PopupFailedToOpen]

\* Mutant of PopupCallSteps: the state is stored after the request was
\* submitted.
PopupCallStepsStoreLast(options, opened) ==
    <<"window.open">>
    \o (IF opened /\ RequestData(options).defined THEN <<"postRequest">> ELSE << >>)
    \o (IF options.hasRecoverableState THEN <<"setRecoverableState">> ELSE << >>)
    \o (IF opened /\ options.overlay THEN <<"appendPopupOverlay">> ELSE << >>)
    \o (IF opened /\ options.preferredResponseType # POST_MESSAGE /\ options.overlay
        THEN <<"setInterval">> ELSE << >>)
    \o (IF opened /\ options.preferredResponseType = POST_MESSAGE
        THEN <<"addEventListener", "setInterval">> ELSE << >>)

\* the statements of PopupBehavior.call that have a side effect, in order;
\* createPopup throws when window.open returns null
PopupCallSteps(options, opened) ==
    (IF options.hasRecoverableState THEN <<"setRecoverableState">> ELSE << >>)
    \o <<"window.open">>
    \o (IF opened /\ RequestData(options).defined THEN <<"postRequest">> ELSE << >>)
    \o (IF opened /\ options.overlay THEN <<"appendPopupOverlay">> ELSE << >>)
    \o (IF opened /\ options.preferredResponseType # POST_MESSAGE /\ options.overlay
        THEN <<"setInterval">> ELSE << >>)
    \o (IF opened /\ options.preferredResponseType = POST_MESSAGE
        THEN <<"addEventListener", "setInterval">> ELSE << >>)

\* each side effect noted with the store as it is when the effect starts
RECURSIVE NoteSteps(_, _, _)
NoteSteps(steps, options, stored) ==
    IF steps = << >>
    THEN << >>
    ELSE <<[effect |-> Head(steps), stored |-> stored]>>
         \o NoteSteps(Tail(steps), options,
                      IF Head(steps) = "setRecoverableState"
                      THEN SetRecoverableState(stored, options.requestId,
                                               options.recoverableState)
                      ELSE stored)

\* Mutant of StoreAfter: a call that ends in createPopup's throw leaves the
\* store as it was.
StoreAfterRolledBack(steps, options, stored) ==
    IF steps[Len(steps)] = "window.open"
    THEN stored
    ELSE IF \E i \in DOMAIN steps : steps[i] = "setRecoverableState"
    THEN SetRecoverableState(stored, options.requestId, options.recoverableState)
    ELSE stored

\* the store after the statements
StoreAfter(steps, options, stored) ==
    IF \E i \in DOMAIN steps : steps[i] = "setRecoverableState"
    THEN SetRecoverableState(stored, options.requestId, options.recoverableState)
    ELSE stored

Call(r, options) ==
    /\ UNCHANGED pageVars
    /\ req[r].phase = "idle"
    /\ \E opened \in WindowOpenOutcomes :
        /\ store' = StoreAfter(PopupCallSteps(options, opened), options, store)
        /\ last' = [Task("call", r, NoMessage, {}) EXCEPT
                        !.effects = NoteSteps(PopupCallSteps(options, opened), options, store),
                        !.thrown = IF opened THEN NoError ELSE PopupFailedToOpen,
                        !.arguments = options]
        /\ IF ~opened
           THEN /\ req' = [req EXCEPT ![r] = FailedRequest(req[r], options)]
                /\ UNCHANGED <<windows, forms, listeners>>
           ELSE /\ windows' = CreatePopup(windows, RequestUrl)
                /\ forms' = IF RequestData(options).defined
                            THEN PostRequest(forms, RequestUrl, RequestData(options),
                                             Len(windows'))
                            ELSE forms
                /\ req' = [req EXCEPT ![r] = CalledRequest(req[r], options, Len(windows'))]
                /\ listeners' = IF req'[r].listening THEN Append(listeners, r) ELSE listeners
    /\ UNCHANGED isIOSPlatform

(***************************************************************************)
(* The tasks of the event loop                                             *)
(***************************************************************************)
\* a message event is dispatched to the registered listeners
MessageTask(message) ==
    /\ UNCHANGED pageVars
    /\ listeners # << >>
    /\ LET done == DispatchMessage(listeners, req, message)
       IN  /\ req' = done.req
           /\ listeners' = Registered(listeners, done.req)
           /\ last' = Task("message", 0, message, done.filterCalled)
    /\ UNCHANGED <<isIOSPlatform, store, windows, forms>>

\* Mutant of CloseCheck: the test of popup.closed is inverted.
CloseCheckInverted(rq, opened) ==
    IF opened[rq.popup].closed
    THEN rq
    ELSE RunMicrotasks(rq, [rq EXCEPT !.promise = Reject(rq.promise, PopupClosed, << >>)])

\* Mutant of CloseCheck: popup.closed is not tested.
CloseCheckUntested(rq, opened) ==
    RunMicrotasks(rq, [rq EXCEPT !.promise = Reject(rq.promise, PopupClosed, << >>)])

\* Mutant of CloseCheck: the handle of the first window is tested, not the
\* current value of the popup variable.
CloseCheckFirstHandle(rq, opened) ==
    IF ~opened[1].closed
    THEN rq
    ELSE RunMicrotasks(rq, [rq EXCEPT !.promise = Reject(rq.promise, PopupClosed, << >>)])

\* the callback of the promise's closeCheckInterval
CloseCheck(rq, opened) ==
    IF ~opened[rq.popup].closed
    THEN rq
    ELSE RunMicrotasks(rq, [rq EXCEPT !.promise = Reject(rq.promise, PopupClosed, << >>)])

CloseCheckTick(r) ==
    /\ UNCHANGED pageVars
    /\ req[r].closeCheckInterval
    /\ req' = [req EXCEPT ![r] = CloseCheck(req[r], windows)]
    /\ listeners' = Registered(listeners, req')
    /\ last' = Task("closeCheck", r, NoMessage, {})
    /\ UNCHANGED <<isIOSPlatform, store, windows, forms>>

\* Mutant of OverlayCloseCheck: the interval is not cleared.
OverlayCloseCheckKeepsPoll(rq, opened) ==
    IF ~opened[rq.popup].closed
    THEN rq
    ELSE [rq EXCEPT !.overlay = RemoveOverlay(rq.overlay)]

\* the callback of the interval that removes the overlay when no response is
\* expected
OverlayCloseCheck(rq, opened) ==
    IF ~opened[rq.popup].closed
    THEN rq
    ELSE [rq EXCEPT !.overlayCheckInterval = FALSE, !.overlay = RemoveOverlay(rq.overlay)]

OverlayCloseCheckTick(r) ==
    /\ UNCHANGED pageVars
    /\ req[r].overlayCheckInterval
    /\ req' = [req EXCEPT ![r] = OverlayCloseCheck(req[r], windows)]
    /\ last' = Task("overlayCloseCheck", r, NoMessage, {})
    /\ UNCHANGED <<isIOSPlatform, store, windows, forms, listeners>>

\* Mutant of OverlayClick: an error of the re-open is rethrown, never handed
\* to onCallbackError.
OverlayClickRethrows(r) ==
    /\ UNCHANGED pageVars
    /\ req[r].overlay.inDom
    /\ IF ~isIOSPlatform
       THEN /\ UNCHANGED <<windows, forms, req, listeners>>
            /\ last' = Task("overlayClick", r, NoMessage, {})
       ELSE \E opened \in WindowOpenOutcomes :
            IF opened
            THEN /\ windows' = CreatePopup(ClosePopup(windows, req[r].popup), RequestUrl)
                 /\ forms' = IF RequestData(req[r].options).defined
                             THEN PostRequest(forms, RequestUrl,
                                              RequestData(req[r].options), Len(windows'))
                             ELSE forms
                 /\ req' = [req EXCEPT ![r].popup = Len(windows')]
                 /\ UNCHANGED listeners
                 /\ last' = Task("overlayClick", r, NoMessage, {})
            ELSE /\ windows' = ClosePopup(windows, req[r].popup)
                 /\ UNCHANGED <<req, listeners, forms>>
                 /\ last' = Task("overlayClickFailed", r, NoMessage, {})
    /\ UNCHANGED <<isIOSPlatform, store>>

\* A click on the overlay: onFocusRequested inside the click handler's
\* try/catch.  Where the popup cannot be focused it is closed and opened
\* again; an error of the re-open goes to onCallbackError (the promise's
\* reject) when that is set and is rethrown otherwise.
OverlayClick(r) ==
    /\ UNCHANGED pageVars
    /\ req[r].overlay.inDom
    /\ IF ~isIOSPlatform
       THEN \* popup.focus()
            /\ UNCHANGED <<windows, forms, req, listeners>>
            /\ last' = Task("overlayClick", r, NoMessage, {})
       ELSE \E opened \in WindowOpenOutcomes :
            IF opened
            THEN /\ windows' = CreatePopup(ClosePopup(windows, req[r].popup), RequestUrl)
                 /\ forms' = IF RequestData(req[r].options).defined
                             THEN PostRequest(forms, RequestUrl,
                                              RequestData(req[r].options), Len(windows'))
                             ELSE forms
                 /\ req' = [req EXCEPT ![r].popup = Len(windows')]
                 /\ UNCHANGED listeners
                 /\ last' = Task("overlayClick", r, NoMessage, {})
            ELSE /\ windows' = ClosePopup(windows, req[r].popup)
                 /\ req' = [req EXCEPT ![r] =
                        IF req[r].onCallbackError
                        THEN RunMicrotasks(req[r],
                                 [req[r] EXCEPT !.promise =
                                      Reject(req[r].promise, PopupFailedToOpen, << >>)])
                        ELSE req[r]]
                 /\ listeners' = Registered(listeners, req')
                 /\ UNCHANGED forms
                 /\ last' = Task("overlayClickFailed", r, NoMessage, {})
    /\ UNCHANGED <<isIOSPlatform, store>>

\* Mutant of OverlayCloseClick: the click goes on to the overlay, whose
\* handler opens the popup again.
OverlayCloseClickPropagates(r) ==
    /\ UNCHANGED pageVars
    /\ req[r].overlay.inDom
    /\ Len(windows) < MaxWindows
    /\ windows' = CreatePopup(ClosePopup(windows, req[r].popup), RequestUrl)
    /\ req' = [req EXCEPT ![r].popup = Len(windows')]
    /\ last' = Task("overlayCloseClick", r, NoMessage, {})
    /\ UNCHANGED <<isIOSPlatform, store, forms, listeners>>

\* a click on the overlay's close button: event.stopPropagation(), then
\* onCloseRequested, popup.close()
OverlayCloseClick(r) ==
    /\ UNCHANGED pageVars
    /\ req[r].overlay.inDom
    /\ windows' = ClosePopup(windows, req[r].popup)
    /\ last' = Task("overlayCloseClick", r, NoMessage, {})
    /\ UNCHANGED <<isIOSPlatform, store, forms, listeners, req>>

\* the user closes a popup window
UserClosesPopup(handle) ==
    /\ UNCHANGED pageVars
    /\ ~windows[handle].closed
    /\ windows' = ClosePopup(windows, handle)
    /\ last' = Task("userClose", 0, NoMessage, {})
    /\ UNCHANGED <<isIOSPlatform, store, forms, listeners, req>>

\* the timer of appendPopupOverlay: overlay.style.opacity = '1'
OverlayFadeIn(r) ==
    /\ UNCHANGED pageVars
    /\ req[r].overlay.fadeInTimer
    /\ req' = [req EXCEPT ![r].overlay.fadeInTimer = FALSE, ![r].overlay.opacity = "1"]
    /\ last' = Task("overlayFadeIn", r, NoMessage, {})
    /\ UNCHANGED <<isIOSPlatform, store, windows, forms, listeners>>

\* the timer of removeOverlay: document.body.removeChild(overlay); it was set
\* after the fade-in timer and with a longer delay, so it runs after it
OverlayRemoved(r) ==
    /\ UNCHANGED pageVars
    /\ req[r].overlay.removeTimer
    /\ ~req[r].overlay.fadeInTimer
    /\ req' = [req EXCEPT ![r].overlay.removeTimer = FALSE, ![r].overlay.inDom = FALSE]
    /\ last' = Task("overlayRemoved", r, NoMessage, {})
    /\ UNCHANGED <<isIOSPlatform, store, windows, forms, listeners>>

(***************************************************************************)
(* RedirectBehavior.getRedirectResponse                                    *)
(***************************************************************************)
\* The address: location.href is <PageUrl>?<search>#<fragment>, the question
\* mark and the hash sign being there only with their part.
PageUrl == "https://app.example/"

HrefOf(search, fragment) ==
    <<PageUrl>> \o (IF search = << >> THEN << >> ELSE <<"?">> \o search)
                \o (IF fragment = << >> THEN << >> ELSE <<"#">> \o fragment)

\* location.hash without its #
FragmentOf(address) ==
    LET i == IndexOf(address, <<"#">>)
    IN  IF i = 0 THEN << >> ELSE SubSeq(address, i + 1, Len(address))

\* location.search without its ?
SearchOf(address) ==
    LET h == IndexOf(address, <<"#">>)
        beforeHash == IF h = 0 THEN address ELSE SubSeq(address, 1, h - 1)
        q == IndexOf(beforeHash, <<"?">>)
    IN  IF q = 0 THEN << >> ELSE SubSeq(beforeHash, q + 1, Len(beforeHash))

\* the decoding of URLSearchParams: + is a space, %41 is A
RECURSIVE Decode(_)
Decode(string) ==
    IF string = << >>
    THEN << >>
    ELSE (IF Head(string) = "+" THEN <<" ">>
          ELSE IF Head(string) = "%41" THEN <<"A">>
          ELSE <<Head(string)>>) \o Decode(Tail(string))

\* one name=value piece of a query as URLSearchParams reads it
ParseEntry(piece) ==
    LET i == IndexOf(piece, <<"=">>)
    IN  IF i = 0
        THEN [key |-> Decode(piece), value |-> << >>]
        ELSE [key |-> Decode(SubSeq(piece, 1, i - 1)),
              value |-> Decode(SubSeq(piece, i + 1, Len(piece)))]

\* new URLSearchParams(query): the entries in order, empty pieces skipped
RECURSIVE ParseEntries(_)
ParseEntries(pieces) ==
    IF pieces = << >>
    THEN << >>
    ELSE (IF Head(pieces) = << >> THEN << >> ELSE <<ParseEntry(Head(pieces))>>)
         \o ParseEntries(Tail(pieces))

URLSearchParams(query) == ParseEntries(Split(query, "&"))

\* parsedQuery.get(name): the value of the first entry of that name
RECURSIVE GetParam(_, _)
GetParam(entries, name) ==
    IF entries = << >>
    THEN [found |-> FALSE, value |-> << >>]
    ELSE IF Head(entries).key = name
    THEN [found |-> TRUE, value |-> Head(entries).value]
    ELSE GetParam(Tail(entries), name)

\* the end of the longest run of tokens other than & that starts at from
RECURSIVE RunEnd(_, _)
RunEnd(string, from) ==
    IF from < Len(string) /\ string[from + 1] # "&"
    THEN RunEnd(string, from + 1)
    ELSE from

\* the first match of /event=[^&]+&?/ at or after from: its first and last
\* index, first = 0 when there is none
RECURSIVE EventMarker(_, _)
EventMarker(query, from) ==
    IF from + 2 > Len(query)
    THEN [first |-> 0, last |-> 0]
    ELSE IF query[from] = "event" /\ query[from + 1] = "=" /\ query[from + 2] # "&"
    THEN LET end == RunEnd(query, from + 2)
         IN  [first |-> from,
              last |-> IF end < Len(query) /\ query[end + 1] = "&" THEN end + 1 ELSE end]
    ELSE EventMarker(query, from + 1)

\* query.replace(/event=[^&]+&?/, '')
RemoveEventMarker(query) ==
    LET m == EventMarker(query, 1)
    IN  IF m.first = 0 THEN query ELSE Cut(query, m.first, m.last)

\* cleanedQuery.replace(new RegExp(escaped(`${key}=${value}`) + '&?'), '')
RemoveEntry(cleanedQuery, key, value) ==
    LET text == key \o <<"=">> \o value
        i == IndexOf(cleanedQuery, text)
        end == i + Len(text) - 1
    IN  IF i = 0
        THEN cleanedQuery
        ELSE Cut(cleanedQuery, i,
                 IF end < Len(cleanedQuery) /\ cleanedQuery[end + 1] = "&"
                 THEN end + 1 ELSE end)

\* cleanedQuery.replace(/&$/, '')
RemoveTrailingAmpersand(cleanedQuery) ==
    IF cleanedQuery # << >> /\ cleanedQuery[Len(cleanedQuery)] = "&"
    THEN SubSeq(cleanedQuery, 1, Len(cleanedQuery) - 1)
    ELSE cleanedQuery

\* location.href.replace(query, cleanedQuery): the first occurrence
ReplaceFirst(string, part, replacement) ==
    LET i == IndexOf(string, part)
    IN  IF i = 0
        THEN string
        ELSE SubSeq(string, 1, i - 1) \o replacement
             \o SubSeq(string, i + Len(part), Len(string))

\* the test of the inner loop: the expected key matches the parameter's key
ExpectedKeyMatches(expectedKey, key) ==
    IF ~expectedKey.regexp THEN expectedKey.text = key
    ELSE MatchesWholeKey(expectedKey, key)

\* the first expected key that matches, 0 when none does
RECURSIVE FirstMatch(_, _, _)
FirstMatch(expectedKeys, key, i) ==
    IF i > Len(expectedKeys)
    THEN 0
    ELSE IF ExpectedKeyMatches(expectedKeys[i], key)
    THEN i
    ELSE FirstMatch(expectedKeys, key, i + 1)

\* The loop over the parsed entries: the response read so far, the required
\* keys still missing and the cleaned query.
RECURSIVE ReadEntries(_, _, _)
ReadEntries(entries, expectedKeys, acc) ==
    IF entries = << >>
    THEN acc
    ELSE LET entry == Head(entries)
             i == FirstMatch(expectedKeys, entry.key, 1)
         IN  ReadEntries(Tail(entries), expectedKeys,
                 IF i = 0
                 THEN acc
                 ELSE [response |-> SetKey(acc.response, entry.key, entry.value),
                       missingRequiredKeys |-> acc.missingRequiredKeys \ {expectedKeys[i]},
                       cleanedQuery |-> RemoveEntry(acc.cleanedQuery, entry.key,
                                                    entry.value)])

\* key.toString() of a key specification
KeyToString(expectedKey) ==
    IF expectedKey.regexp THEN <<"/^">> \o expectedKey.text \o <<".+$/">>
    ELSE expectedKey.text

\* the tokens in the order of their first characters' code units
TokenOrder ==
    <<" ", "%41", "+", ",", ".+$/", "/^", "1", "2", "42", "A", "_optional:",
      "_required:", "abc", "app", "event", "grant-for-app-", "grant-for-service-",
      "grant-response", "other-event", "s1", "s2", "status", "x">>

Rank(token) == CHOOSE i \in 1..Len(TokenOrder) : TokenOrder[i] = token

\* a < b as Array.prototype.sort compares strings
RECURSIVE StringLess(_, _)
StringLess(a, b) ==
    IF b = << >> THEN FALSE
    ELSE IF a = << >> THEN TRUE
    ELSE IF Head(a) = Head(b) THEN StringLess(Tail(a), Tail(b))
    ELSE Rank(Head(a)) < Rank(Head(b))

\* array.sort(), by insertion
RECURSIVE Insert(_, _)
Insert(sorted, string) ==
    IF sorted = << >>
    THEN <<string>>
    ELSE IF StringLess(string, Head(sorted))
    THEN <<string>> \o sorted
    ELSE <<Head(sorted)>> \o Insert(Tail(sorted), string)

RECURSIVE Sort(_)
Sort(strings) ==
    IF strings = << >> THEN << >> ELSE Insert(Sort(Tail(strings)), Head(strings))

\* `${array}`: the elements joined by commas
RECURSIVE Join(_)
Join(strings) ==
    IF strings = << >> THEN << >>
    ELSE IF Len(strings) = 1 THEN Head(strings)
    ELSE Head(strings) \o <<",">> \o Join(Tail(strings))

KeysToStrings(keys) == [i \in 1..Len(keys) |-> KeyToString(keys[i])]

\* requiredKeys after its first statement: 'status' is pushed if it is not in
WithStatus(requiredKeys) ==
    IF \E i \in 1..Len(requiredKeys) : requiredKeys[i] = Name(StatusKey)
    THEN requiredKeys
    ELSE Append(requiredKeys, Name(StatusKey))

\* Mutant of ResponseId: the key strings are joined in the order given.
ResponseIdUnsorted(event, requiredKeys, optionalKeys) ==
    event \o <<"_required:">> \o Join(KeysToStrings(requiredKeys))
          \o (IF optionalKeys # << >>
              THEN <<"_optional:">> \o Join(KeysToStrings(optionalKeys))
              ELSE << >>)

\* responseId
ResponseId(event, requiredKeys, optionalKeys) ==
    event \o <<"_required:">> \o Join(Sort(KeysToStrings(requiredKeys)))
          \o (IF optionalKeys # << >>
              THEN <<"_optional:">> \o Join(Sort(KeysToStrings(optionalKeys)))
              ELSE << >>)

\* history.state?.[STORAGE_KEY]?.[responseId] || null
CachedResponse(cache, responseId) ==
    IF responseId \in DOMAIN cache THEN Returned(cache[responseId]) ELSE ReturnedNull

\* Mutant of IsUnexpectedRedirect: only the status is looked at.
IsUnexpectedWithoutStatus(response, missingRequiredKeys) == ~Truthy(response, StatusKey)

\* !response.status || (response.status === Success && missingRequiredKeys.size)
IsUnexpectedRedirect(response, missingRequiredKeys) ==
    \/ ~Truthy(response, StatusKey)
    \/ (response[StatusKey] = Success /\ missingRequiredKeys # {})

\* Mutant of IsRejectedRedirect: Error and Unknown pass, as the message
\* listener's default filter lets them.
IsRejectedUnlessRecoverable(response) ==
    response[StatusKey] \notin {Success, Error, Unknown}

\* response.status !== ResponseStatus.Success
IsRejectedRedirect(response) == response[StatusKey] # Success

\* the body of the loop for one part of the address that carries the event:
\* the result, and the address and the cache after it
ReadResponse(address, cache, query, requiredKeys, optionalKeys, responseId) ==
    LET read == ReadEntries(URLSearchParams(query), requiredKeys \o optionalKeys,
                    [response |-> EmptyObject,
                     missingRequiredKeys |-> {requiredKeys[i] : i \in 1..Len(requiredKeys)},
                     cleanedQuery |-> RemoveEventMarker(query)])
        cleanedQuery == RemoveTrailingAmpersand(read.cleanedQuery)
        response == read.response
    IN  IF IsUnexpectedRedirect(response, read.missingRequiredKeys)
        THEN [result |-> Thrown(ExpectedResponseMissing, << >>),
              href |-> address, cache |-> cache, replaced |-> FALSE]
        ELSE IF IsRejectedRedirect(response)
        THEN [result |-> Thrown(RequestRejected, response[StatusKey]),
              href |-> address, cache |-> cache, replaced |-> FALSE]
        ELSE [result |-> Returned(response),
              href |-> ReplaceFirst(address, query, cleanedQuery),
              cache |-> SetKey(cache, responseId, response),
              replaced |-> TRUE]

\* the loop over [location.search, location.hash], then the cache
RECURSIVE FindResponse(_, _, _, _, _, _, _)
FindResponse(queries, address, cache, event, requiredKeys, optionalKeys, responseId) ==
    IF queries = << >>
    THEN [result |-> CachedResponse(cache, responseId),
          href |-> address, cache |-> cache, replaced |-> FALSE]
    ELSE LET query == Head(queries)
             eventParam == GetParam(URLSearchParams(query), EventKey)
         IN  IF query = << >> \/ ~eventParam.found \/ eventParam.value # event
             THEN FindResponse(Tail(queries), address, cache, event, requiredKeys,
                               optionalKeys, responseId)
             ELSE ReadResponse(address, cache, query, requiredKeys, optionalKeys,
                               responseId)

\* Mutant of WrongReferrer: a page without referrer passes.
WrongReferrerIfAny(origin, referrerOrigin) ==
    origin # NoOrigin /\ referrerOrigin # "" /\ referrerOrigin # origin

\* origin && (!document.referrer || new URL(document.referrer).origin !== origin)
WrongReferrer(origin, referrerOrigin) ==
    origin # NoOrigin /\ (referrerOrigin = "" \/ referrerOrigin # origin)

\* Mutant of RedirectResponse: the fragment is scanned before the search part.
RedirectResponseFragmentFirst(address, referrerOrigin, cache, event, requiredKeys, optionalKeys, origin) ==
    IF WrongReferrer(origin, referrerOrigin)
    THEN [result |-> ReturnedNull, href |-> address, cache |-> cache, replaced |-> FALSE]
    ELSE FindResponse(<<FragmentOf(address), SearchOf(address)>>, address, cache, event,
                      WithStatus(requiredKeys), optionalKeys,
                      ResponseId(event, WithStatus(requiredKeys), optionalKeys))

\* RedirectBehavior.getRedirectResponse(event, requiredKeys, optionalKeys, origin)
\* on a page at the given address, referrer and history state
RedirectResponse(address, referrerOrigin, cache, event, requiredKeys, optionalKeys, origin) ==
    IF WrongReferrer(origin, referrerOrigin)
    THEN [result |-> ReturnedNull, href |-> address, cache |-> cache, replaced |-> FALSE]
    ELSE FindResponse(<<SearchOf(address), FragmentOf(address)>>, address, cache, event,
                      WithStatus(requiredKeys), optionalKeys,
                      ResponseId(event, WithStatus(requiredKeys), optionalKeys))

\* history.replaceState({...history.state, [STORAGE_KEY]: cache}, '', url):
\* the spread keeps the other fields of the state, and no entry is added
ReplaceState(state, cache) == [state EXCEPT !.cache = cache]

\* the page calls getRedirectResponse
GetRedirectResponse(event, requiredKeys, optionalKeys, origin) ==
    \E out \in {RedirectResponse(href, referrer, history.cache, event, requiredKeys,
                                optionalKeys, origin)} :
        /\ href' = out.href
        /\ history' = IF out.replaced THEN ReplaceState(history, out.cache) ELSE history
        /\ last' = [Task("getRedirectResponse", 0, NoMessage, {}) EXCEPT
                        !.matched = [event |-> event, requiredKeys |-> requiredKeys,
                                     optionalKeys |-> optionalKeys, origin |-> origin,
                                     href |-> href, result |-> out.result]]
        /\ UNCHANGED <<referrer, assigned, isIOSPlatform, store, windows, forms, listeners,
                       req, requested>>

\* name=value
Param(key, value) == key \o <<"=">> \o value

\* the pieces joined by &
RECURSIVE Query(_)
Query(pieces) ==
    IF pieces = << >> THEN << >>
    ELSE IF Len(pieces) = 1 THEN Head(pieces)
    ELSE Head(pieces) \o <<"&">> \o Query(Tail(pieces))

\* what the provider appends to the address it redirects back to
StatusParam(status) == Param(StatusKey, status)
AppParam == Param(AppKey, Str("1"))
GrantParam == Param(GrantKey, Str("abc"))
OwnParam(value) == Param(Str("x"), Str(value))

RedirectResponses ==
    {<<StatusParam(Success), AppParam, GrantParam>>,
     <<StatusParam(Success), AppParam>>,
     <<AppParam, GrantParam>>,
     <<StatusParam(<< >>), AppParam, GrantParam>>,
     <<StatusParam(Error)>>}

RedirectQuery(event, response) == Query(<<Param(EventKey, event)>> \o response)

\* the addresses a page of these models is loaded at: without a response, with
\* one in the search part, with the response to another event, with one in
\* the fragment, and with one between the page's own parameters
ChannelAddresses ==
    {HrefOf(<< >>, << >>),
     HrefOf(RedirectQuery(OtherEvent, <<StatusParam(Success), AppParam>>), << >>)}
    \cup {HrefOf(RedirectQuery(ResponseEvent, response), << >>) :
              response \in RedirectResponses}
    \cup {HrefOf(Query(<<OwnParam("1")>>),
                 RedirectQuery(ResponseEvent, <<StatusParam(Success), AppParam>>)),
          HrefOf(Query(<<OwnParam("1"),
                         RedirectQuery(ResponseEvent,
                                       <<StatusParam(Success), AppParam, GrantParam>>),
                         OwnParam("2")>>), << >>)}

Referrers == {"", EndpointOrigin}

\* the arguments the page passes to getRedirectResponse
ChannelEvents == {ResponseEvent}
ChannelRequiredKeys == {<< >>, <<Name(AppKey), Pattern(GrantForApp)>>}
ChannelOptionalKeys == {<< >>, <<Name(AppKey)>>}
Origins == {NoOrigin, EndpointOrigin}

(***************************************************************************)
(* The page with its popup requests                                        *)
(***************************************************************************)
\* no call of requestGrants yet
NoRequest == [appId |-> << >>, services |-> << >>, recoverableState |-> JsUndefined,
              returned |-> << >>]

\* the page is loaded: nothing is requested yet
InitPopup ==
    /\ isIOSPlatform \in BOOLEAN
    /\ store = EmptyObject
    /\ windows = << >>
    /\ forms = << >>
    /\ listeners = << >>
    /\ req = [r \in Requests |-> IdleRequest]
    /\ last = Task("load", 0, NoMessage, {})
    /\ assigned = << >>
    /\ requested = NoRequest

\* the history entry of the loaded page, no state attached yet: the number of
\* entries, the reserved field of history.state and its other fields
NewHistory == [length |-> 1, cache |-> EmptyObject, own |-> EmptyObject]

\* a page opened at its plain address, not coming back from the provider
Init ==
    /\ InitPopup
    /\ href = HrefOf(<< >>, << >>)
    /\ referrer = ""
    /\ history = NewHistory

Next ==
    \/ \E r \in Requests, options \in CallOptions : Call(r, options)
    \/ \E message \in SomeMessages : MessageTask(message)
    \/ \E r \in Requests : CloseCheckTick(r)
    \/ \E r \in Requests : OverlayCloseCheckTick(r)
    \/ \E r \in Requests : OverlayClick(r)
    \/ \E r \in Requests : OverlayCloseClick(r)
    \/ \E handle \in DOMAIN windows : UserClosesPopup(handle)
    \/ \E r \in Requests : OverlayFadeIn(r)
    \/ \E r \in Requests : OverlayRemoved(r)

Spec == Init /\ [][Next]_vars

(***************************************************************************)
(* The listener on every message: requests without overlay, every message  *)
(***************************************************************************)
ListenerOptions ==
    {options \in MessageOptions :
        options.hasData /\ ~options.overlay /\ ~options.hasRecoverableState}

NextListener ==
    \/ \E r \in Requests, options \in ListenerOptions : Call(r, options)
    \/ \E message \in Messages : MessageTask(message)
    \/ \E r \in Requests : CloseCheckTick(r)
    \/ \E handle \in DOMAIN windows : UserClosesPopup(handle)

SpecListener == Init /\ [][NextListener]_vars

\* the page's timers keep running: an active close check ticks again
SpecFair == Init /\ [][Next]_vars /\ \A r \in Requests : WF_vars(CloseCheckTick(r))

(***************************************************************************)
(* Both channels: a page that may come back from the provider, reads the   *)
(* redirect response and makes message-mode requests                       *)
(***************************************************************************)
InitChannels ==
    /\ InitPopup
    /\ href \in ChannelAddresses
    /\ referrer \in Referrers
    /\ history = NewHistory

ChannelOptions ==
    {options \in ListenerOptions :
        options.requiredKeys \in
            {NoRequiredKeys, RequiredKeys(<<Name(AppKey), Pattern(GrantForApp)>>)}}

ChannelMessages ==
    {message \in Messages :
        /\ message.isObject
        /\ EventKey \in DOMAIN message.data
        /\ message.data[EventKey] = ResponseEvent
        /\ message.origin = EndpointOrigin
        /\ StatusKey \in DOMAIN message.data => message.data[StatusKey] \in {Success, Error}}

NextChannels ==
    \/ \E event \in ChannelEvents, requiredKeys \in ChannelRequiredKeys,
          optionalKeys \in ChannelOptionalKeys, origin \in Origins :
            GetRedirectResponse(event, requiredKeys, optionalKeys, origin)
    \/ \E r \in Requests, options \in ChannelOptions : Call(r, options)
    \/ \E message \in ChannelMessages : MessageTask(message)

SpecChannels == InitChannels /\ [][NextChannels]_vars

(***************************************************************************)
(* The redirect channel: a page that came back from the provider and reads *)
(* the response from its address, any number of times                      *)
(***************************************************************************)
GrantForService == Str("grant-for-service-")
ServiceKey == <<"grant-for-service-", "s1">>
ServiceParam == Param(ServiceKey, Str("abc"))

\* a grant whose value the provider had to encode: a+b is the value "a b"
EncodedGrantParam == Param(GrantKey, <<"a", "+", "b">>)

FullResponse == <<StatusParam(Success), AppParam, GrantParam>>

\* what the provider can append: the responses above, one with a service
\* grant, one with an encoded value, and one with status Unknown
ProviderResponses ==
    RedirectResponses
    \cup {<<StatusParam(Success), GrantParam, ServiceParam>>,
          <<StatusParam(Success), EncodedGrantParam>>,
          <<GrantParam, StatusParam(Success)>>,
          <<StatusParam(Unknown), AppParam>>}

\* the addresses the page is loaded at: its plain address; a response in the
\* search part or in the fragment; a response after, or between, the page's
\* own parameters; a response in the fragment of a page with own
\* parameters; the response to another event; responses in both parts, with
\* different grants, and with an error in the search part
Addresses ==
    {HrefOf(<< >>, << >>), HrefOf(Query(<<OwnParam("1")>>), << >>)}
    \cup {HrefOf(RedirectQuery(ResponseEvent, response), << >>) :
              response \in ProviderResponses}
    \cup {HrefOf(<< >>, RedirectQuery(ResponseEvent, response)) :
              response \in {FullResponse, <<StatusParam(Success), AppParam>>}}
    \cup {HrefOf(Query(<<OwnParam("1")>>), RedirectQuery(ResponseEvent, response)) :
              response \in {FullResponse, <<StatusParam(Error)>>}}
    \cup {HrefOf(Query(<<OwnParam("1"), RedirectQuery(ResponseEvent, FullResponse)>>),
                 << >>),
          HrefOf(Query(<<OwnParam("1"), RedirectQuery(ResponseEvent, FullResponse),
                         OwnParam("2")>>), << >>),
          HrefOf(RedirectQuery(OtherEvent, FullResponse), << >>),
          HrefOf(RedirectQuery(ResponseEvent, FullResponse),
                 RedirectQuery(ResponseEvent, <<StatusParam(Success), GrantParam>>)),
          HrefOf(RedirectQuery(ResponseEvent, <<StatusParam(Success), GrantParam>>),
                 RedirectQuery(ResponseEvent,
                               <<StatusParam(Success), Param(GrantKey, Str("x"))>>)),
          HrefOf(RedirectQuery(ResponseEvent, <<StatusParam(Error)>>),
                 RedirectQuery(ResponseEvent, FullResponse)),
          HrefOf(RedirectQuery(OtherEvent, FullResponse),
                 RedirectQuery(ResponseEvent, FullResponse))}

AllReferrers == {"", EndpointOrigin, ForeignOrigin}

\* the arguments of getRedirectResponse; the call at module load passes
\* grant-response, [/^grant-for-app-.+$/], [/^grant-for-service-.+$/]
Events == {ResponseEvent, OtherEvent}
RequiredKeyLists ==
    {<< >>, <<Pattern(GrantForApp)>>, <<Name(AppKey), Pattern(GrantForApp)>>,
     <<Pattern(GrantForApp), Name(AppKey)>>}
OptionalKeyLists == {<< >>, <<Pattern(GrantForService)>>}

InitRedirect ==
    /\ InitPopup
    /\ ~isIOSPlatform
    /\ href \in Addresses
    /\ referrer \in AllReferrers
    /\ history = NewHistory

NextRedirect ==
    \E event \in Events, requiredKeys \in RequiredKeyLists,
       optionalKeys \in OptionalKeyLists, origin \in Origins :
        GetRedirectResponse(event, requiredKeys, optionalKeys, origin)

SpecRedirect == InitRedirect /\ [][NextRedirect]_vars

(***************************************************************************)
(* RedirectBehavior.call                                                   *)
(***************************************************************************)
\* the options of RedirectBehavior.call, with the data argument: data that
\* JSON.stringify serialises, or data with a value it throws a TypeError on
\* (an object that contains itself, a BigInt)
RedirectOptions ==
    [preferredResponseType : {NoResponseType, REDIRECT, IMMEDIATE_REDIRECT},
     hasData : BOOLEAN,
     serialisable : BOOLEAN,
     hasRecoverableState : BOOLEAN,
     requestId : {<<"42">>, <<"42", "_", "s1">>},
     recoverableState : {Js("string", "state-1"), Js("number", "0")}]

\* Mutant of RedirectCallSteps: the navigation is started first.
RedirectCallStepsNavigateFirst(options) ==
    <<IF RequestData(options).defined THEN "postRequest" ELSE "location.assign">>
    \o (IF options.hasRecoverableState THEN <<"setRecoverableState">> ELSE << >>)

\* the statements of RedirectBehavior.call that have a side effect, in order
RedirectCallSteps(options) ==
    (IF options.hasRecoverableState THEN <<"setRecoverableState">> ELSE << >>)
    \o <<IF RequestData(options).defined THEN "postRequest" ELSE "location.assign">>

TypeError == "TypeError"

\* Mutant of StringifyThrows: any data makes postRequest throw.
StringifyThrowsAlways(options) == options.hasData

\* utils.ts postRequest: JSON.stringify(value) throws for a value of the data
\* it cannot serialise, before the form is submitted
StringifyThrows(options) == options.hasData /\ ~options.serialisable

\* The statements run one after the other on the page's state, up to the
\* first that throws; each side effect is noted with the store as it is when
\* the effect starts.
RECURSIVE RunSteps(_, _, _)
RunSteps(steps, options, page) ==
    IF steps = << >>
    THEN page
    ELSE IF Head(steps) = "postRequest" /\ StringifyThrows(options)
    THEN [page EXCEPT !.thrown = TypeError]
    ELSE LET noted == [page EXCEPT !.effects =
                          Append(@, [effect |-> Head(steps), stored |-> page.store])]
         IN  RunSteps(Tail(steps), options,
                 IF Head(steps) = "setRecoverableState"
                 THEN [noted EXCEPT !.store = SetRecoverableState(page.store,
                                        options.requestId, options.recoverableState)]
                 ELSE IF Head(steps) = "postRequest"
                 THEN [noted EXCEPT !.forms = PostRequest(page.forms, RequestUrl,
                                                          RequestData(options), 0)]
                 ELSE [noted EXCEPT !.assigned = Append(page.assigned, RequestUrl)])

\* RedirectBehavior.call(request, data, options): returns undefined, or
\* throws what postRequest throws
RedirectCall(options) ==
    /\ Len(forms) + Len(assigned) < MaxNavigations
    /\ \E done \in {RunSteps(RedirectCallSteps(options), options,
                              [store |-> store, forms |-> forms, assigned |-> assigned,
                               effects |-> << >>, thrown |-> NoError])} :
          /\ store' = done.store
          /\ forms' = done.forms
          /\ assigned' = done.assigned
          /\ last' = [Task("redirectCall", 0, NoMessage, {}) EXCEPT
                          !.effects = done.effects,
                          !.thrown = done.thrown,
                          !.arguments = options,
                          !.state = IF options.hasRecoverableState
                                    THEN [requestId |-> options.requestId,
                                          value |-> options.recoverableState]
                                    ELSE NoState]
    /\ UNCHANGED <<isIOSPlatform, windows, listeners, req, href, referrer, history,
                   requested>>

NextNavigate == \E options \in RedirectOptions : RedirectCall(options)

(***************************************************************************)
(* The store read and written by the page, and                             *)
(* Ten31PassApi.getRedirectGrantResponse                                   *)
(***************************************************************************)
StoreRequestIds == {<<"42">>, <<"42", "_", "s1">>}

\* recoverableState: any
StoredValues ==
    {Js("string", "state-1"), Js("object", "{step: 1}"), Js("string", ""),
     Js("number", "0"), Js("boolean", "false"), JsNull, JsUndefined, JsNaN}

\* the page calls RedirectBehavior.setRecoverableState
CallSetRecoverableState(requestId, recoverableState) ==
    /\ store' = SetRecoverableState(store, requestId, recoverableState)
    /\ last' = [Task("setRecoverableState", 0, NoMessage, {}) EXCEPT
                    !.state = [requestId |-> requestId, value |-> recoverableState]]
    /\ UNCHANGED <<isIOSPlatform, windows, forms, listeners, req, pageVars>>

\* Mutant of CallGetRecoverableState: the entry is removed once it is read.
CallGetRecoverableStateOnce(requestId) ==
    /\ store' = DeleteKey(store, requestId)
    /\ last' = [Task("getRecoverableState", 0, NoMessage, {}) EXCEPT
                    !.state = [requestId |-> requestId,
                               value |-> GetRecoverableState(store, requestId)]]
    /\ UNCHANGED <<isIOSPlatform, windows, forms, listeners, req, pageVars>>

\* the page calls RedirectBehavior.getRecoverableState
CallGetRecoverableState(requestId) ==
    /\ last' = [Task("getRecoverableState", 0, NoMessage, {}) EXCEPT
                    !.state = [requestId |-> requestId,
                               value |-> GetRecoverableState(store, requestId)]]
    /\ UNCHANGED <<isIOSPlatform, store, windows, forms, listeners, req, pageVars>>

\* the strings joined by the separator
RECURSIVE JoinBy(_, _)
JoinBy(strings, separator) ==
    IF strings = << >> THEN << >>
    ELSE IF Len(strings) = 1 THEN Head(strings)
    ELSE Head(strings) \o <<separator>> \o JoinBy(Tail(strings), separator)

\* the keys of the set in some order
RECURSIVE KeysOf(_)
KeysOf(keys) ==
    IF keys = {} THEN << >>
    ELSE LET key == CHOOSE k \in keys : TRUE IN <<key>> \o KeysOf(keys \ {key})

\* Mutant of GetRequestId: the service ids are joined in the order given.
GetRequestIdUnsorted(appId, serviceIds) == JoinBy(<<appId>> \o serviceIds, "_")

\* Ten31PassApi.getRequestId: [appId, ...serviceIds.sort()].join('_')
GetRequestId(appId, serviceIds) == JoinBy(<<appId>> \o Sort(serviceIds), "_")

\* the request id that getRedirectGrantResponse computes from the response:
\* the app id is the rest of the grant-for-app- key, the service ids are the
\* rests of the grant-for-service- keys
RequestIdOf(redirectResponse) ==
    LET appKeys == {key \in DOMAIN redirectResponse : IsPrefix(GrantForApp, key)}
        serviceKeys == {key \in DOMAIN redirectResponse : IsPrefix(GrantForService, key)}
    IN  GetRequestId(Tail(CHOOSE key \in appKeys : TRUE),
                     KeysOf({Tail(key) : key \in serviceKeys}))

\* Ten31PassApi.getRedirectGrantResponse(): null, or the grant response with
\* the recovered state; an error of getRedirectResponse is thrown on
GetRedirectGrantResponse ==
    \E out \in {RedirectResponse(href, referrer, history.cache, ResponseEvent,
                                <<Pattern(GrantForApp)>>, <<Pattern(GrantForService)>>,
                                EndpointOrigin)} :
        /\ href' = out.href
        /\ history' = IF out.replaced THEN ReplaceState(history, out.cache) ELSE history
        /\ last' = [Task("getRedirectGrantResponse", 0, NoMessage, {}) EXCEPT
                        !.matched = [event |-> ResponseEvent,
                                     requiredKeys |-> <<Pattern(GrantForApp)>>,
                                     optionalKeys |-> <<Pattern(GrantForService)>>,
                                     origin |-> EndpointOrigin, href |-> href,
                                     result |-> out.result],
                        !.state =
                            IF out.result.outcome = "thrown" \/ out.result.isNull
                            THEN NoState
                            ELSE [requestId |-> RequestIdOf(out.result.response),
                                  value |-> GetRecoverableState(store,
                                               RequestIdOf(out.result.response))]]
        /\ UNCHANGED <<referrer, assigned, isIOSPlatform, store, windows, forms, listeners,
                       req, requested>>

\* the page came back from the provider, or was opened at its plain address
InitStore ==
    /\ InitPopup
    /\ ~isIOSPlatform
    /\ href \in {HrefOf(<< >>, << >>),
                 HrefOf(RedirectQuery(ResponseEvent, FullResponse), << >>),
                 HrefOf(RedirectQuery(ResponseEvent,
                                      <<StatusParam(Success), GrantParam, ServiceParam>>),
                        << >>),
                 HrefOf(RedirectQuery(ResponseEvent, <<StatusParam(Success), AppParam>>),
                        << >>)}
    /\ referrer \in Referrers
    /\ history = NewHistory

NextStore ==
    \/ \E requestId \in StoreRequestIds, recoverableState \in StoredValues :
            CallSetRecoverableState(requestId, recoverableState)
    \/ \E requestId \in StoreRequestIds : CallGetRecoverableState(requestId)
    \/ GetRedirectGrantResponse

SpecStore == InitStore /\ [][NextStore]_vars

SpecNavigate == Init /\ [][NextNavigate]_vars

(***************************************************************************)
(* Two requests of one page in flight at once.  A message event has a      *)
(* source: the window that posted it (event.source).                       *)
(***************************************************************************)
TwoRequests == {1, 2}

ConcurrentOptions ==
    {options \in CallOptions :
        /\ options.preferredResponseType \in {POST_MESSAGE, REDIRECT}
        /\ options.hasData /\ ~options.hasRecoverableState
        /\ options.responseFilter = NoFilter
        /\ options.requiredKeys = NoRequiredKeys}

\* the message posted by the window of that handle
From(handle, message) ==
    [origin |-> message.origin, isObject |-> message.isObject, data |-> message.data,
     source |-> handle]

ConcurrentMessages ==
    {From(handle, message) :
        handle \in 1..MaxWindows,
        message \in {Response(Success, SetKey(EmptyObject, AppKey, Str("42"))),
                     Response(InvalidRequest, EmptyObject),
                     Response(Error, EmptyObject)}}

\* a message from a popup the page has opened
SourcedMessageTask(message) ==
    /\ message.source \in DOMAIN windows
    /\ MessageTask(message)

InitConcurrent ==
    /\ isIOSPlatform \in BOOLEAN
    /\ store = EmptyObject
    /\ windows = << >>
    /\ forms = << >>
    /\ listeners = << >>
    /\ req = [r \in TwoRequests |-> IdleRequest]
    /\ last = Task("load", 0, NoMessage, {})
    /\ assigned = << >>
    /\ requested = NoRequest
    /\ href = HrefOf(<< >>, << >>)
    /\ referrer = ""
    /\ history = NewHistory

NextConcurrent ==
    \/ \E r \in TwoRequests, options \in ConcurrentOptions : Call(r, options)
    \/ \E message \in ConcurrentMessages : SourcedMessageTask(message)
    \/ \E r \in TwoRequests : CloseCheckTick(r)
    \/ \E r \in TwoRequests : OverlayCloseCheckTick(r)
    \/ \E r \in TwoRequests : OverlayClick(r)
    \/ \E r \in TwoRequests : OverlayCloseClick(r)
    \/ \E handle \in DOMAIN windows : UserClosesPopup(handle)
    \/ \E r \in TwoRequests : OverlayFadeIn(r)
    \/ \E r \in TwoRequests : OverlayRemoved(r)

SpecConcurrent == InitConcurrent /\ [][NextConcurrent]_vars

\* the page's timers keep running: an interval ticks again, a timeout runs
SpecConcurrentFair ==
    /\ InitConcurrent
    /\ [][NextConcurrent]_vars
    /\ \A r \in TwoRequests :
          /\ WF_vars(CloseCheckTick(r))
          /\ WF_vars(OverlayCloseCheckTick(r))
          /\ WF_vars(OverlayFadeIn(r))
          /\ WF_vars(OverlayRemoved(r))

(***************************************************************************)
(* The redirect round trip: Ten31PassApi.requestGrants without popup, the  *)
(* provider's redirect back to the page, the call of getRedirectResponse   *)
(* at module load and Ten31PassApi.getRedirectGrantResponse                *)
(***************************************************************************)
RequestInvalid == "TEN31 Pass request invalid"

AppIds == {Str("42")}

\* a ServiceRequest: its service id and the usage ids of its usages
ServiceRequest(serviceId, usages) == [serviceId |-> serviceId, usages |-> usages]

\* services.map(({ serviceId }) => serviceId)
ServiceIds(services) == [i \in DOMAIN services |-> services[i].serviceId]

\* services: ServiceRequest[], in the caller's order; the same usage id in
\* two services, a service named twice, a usage named twice in a service
ServiceLists ==
    {<< >>,
     <<ServiceRequest(Str("s1"), <<"u1", "u2">>)>>,
     <<ServiceRequest(Str("s1"), <<"u1">>), ServiceRequest(Str("s2"), <<"u1">>)>>,
     <<ServiceRequest(Str("s2"), << >>), ServiceRequest(Str("s1"), << >>)>>,
     <<ServiceRequest(Str("s1"), << >>), ServiceRequest(Str("s1"), <<"u1">>)>>,
     <<ServiceRequest(Str("s1"), <<"u1", "u1">>)>>}

\* redirectRecoverableState: left out, or a JSON object
RecoverableObjects == {JsUndefined, Js("object", "{step: 1}"), Js("object", "{step: 2}")}

\* key in converted: the list names a key twice
HasDuplicate(keys) ==
    \E i, j \in DOMAIN keys : i < j /\ keys[i] = keys[j]

\* Mutant of ConvertThrows: the usage ids are not tested.
ConvertThrowsForServicesOnly(services) == HasDuplicate(ServiceIds(services))

\* the conversion of the request throws: serviceId in convertedServices, or
\* usageId in convertedUsages for a service
ConvertThrows(services) ==
    \/ HasDuplicate(ServiceIds(services))
    \/ \E i \in DOMAIN services : HasDuplicate(services[i].usages)

\* the options requestGrants passes to RedirectBehavior.call, with the
\* request as data
RequestGrantsOptions(appId, services, preferredResponseType, redirectRecoverableState) ==
    [preferredResponseType |-> preferredResponseType,
     hasData |-> TRUE,
     data |-> [app |-> appId, services |-> services],
     serialisable |-> TRUE,
     hasRecoverableState |-> redirectRecoverableState # JsUndefined,
     requestId |-> GetRequestId(appId, ServiceIds(services)),
     recoverableState |-> redirectRecoverableState]

\* the options requestGrants passes to PopupBehavior.call, with the request
\* as data: those of a message-mode call, or those of a call that returns void
PopupGrantsOptions(appId, services, preferredResponseType, redirectRecoverableState, popupOverlay) ==
    [preferredResponseType |-> preferredResponseType,
     hasData |-> TRUE,
     data |-> [app |-> appId, services |-> services],
     overlay |-> popupOverlay,
     responseEvent |-> ResponseEvent,
     responseFilter |-> NoFilter,
     requiredKeys |-> IF preferredResponseType = POST_MESSAGE
                      THEN RequiredKeys(<<Name(AppKey)>>)
                      ELSE NoRequiredKeys,
     hasRecoverableState |-> redirectRecoverableState # JsUndefined,
     requestId |-> GetRequestId(appId, ServiceIds(services)),
     recoverableState |-> redirectRecoverableState]

\* the page is loaded and has not started to navigate away
PageIsLoaded == last.op # "requestGrants" \/ last.thrown # NoError

\* Ten31PassApi.requestGrants(appId, services, false, options): throws for a
\* service or a usage named twice, and calls RedirectBehavior.call otherwise
RequestGrants(appId, services, preferredResponseType, redirectRecoverableState) ==
    /\ PageIsLoaded
    /\ Len(forms) + Len(assigned) < MaxNavigations
    /\ IF ConvertThrows(services)
       THEN /\ last' = [Task("requestGrants", 0, NoMessage, {}) EXCEPT
                            !.thrown = RequestInvalid,
                            !.arguments = [data |-> [app |-> appId, services |-> services]]]
            /\ UNCHANGED <<store, forms, assigned, requested>>
       ELSE \E options \in {RequestGrantsOptions(appId, services, preferredResponseType,
                                                 redirectRecoverableState)} :
            \E done \in {RunSteps(RedirectCallSteps(options), options,
                                  [store |-> store, forms |-> forms, assigned |-> assigned,
                                   effects |-> << >>, thrown |-> NoError])} :
               /\ store' = done.store
               /\ forms' = done.forms
               /\ assigned' = done.assigned
               /\ last' = [Task("requestGrants", 0, NoMessage, {}) EXCEPT
                               !.effects = done.effects,
                               !.thrown = done.thrown,
                               !.arguments = options,
                               !.state = IF options.hasRecoverableState
                                         THEN [requestId |-> options.requestId,
                                               value |-> options.recoverableState]
                                         ELSE NoState]
               /\ requested' = [appId |-> appId, services |-> ServiceIds(services),
                                recoverableState |-> redirectRecoverableState,
                                returned |-> << >>]
    /\ UNCHANGED <<isIOSPlatform, windows, listeners, req, href, referrer, history>>

\* Ten31PassApi.requestGrants(appId, services, true, options): throws for a
\* service or a usage named twice, and calls PopupBehavior.call otherwise
RequestGrantsAsPopup(appId, services, preferredResponseType, redirectRecoverableState, popupOverlay) ==
    /\ PageIsLoaded
    /\ IF ConvertThrows(services)
       THEN /\ last' = [Task("requestGrants", 0, NoMessage, {}) EXCEPT
                            !.thrown = RequestInvalid,
                            !.arguments = [data |-> [app |-> appId, services |-> services]]]
            /\ UNCHANGED <<isIOSPlatform, store, windows, forms, listeners, req>>
            /\ UNCHANGED pageVars
       ELSE Call(1, PopupGrantsOptions(appId, services, preferredResponseType,
                                       redirectRecoverableState, popupOverlay))

\* the grant for a service
GrantForServiceParam(serviceId) == Param(GrantForService \o serviceId, Str("abc"))

\* what the provider appends to the address: the grants for the app and for
\* no, one or two services in either order, or an error
GrantResponses ==
    {<<StatusParam(Success), GrantParam>>,
     <<StatusParam(Success), GrantParam, GrantForServiceParam(Str("s1"))>>,
     <<StatusParam(Success), GrantParam, GrantForServiceParam(Str("s1")),
       GrantForServiceParam(Str("s2"))>>,
     <<StatusParam(Success), GrantForServiceParam(Str("s2")), GrantParam,
       GrantForServiceParam(Str("s1"))>>,
     <<StatusParam(Error)>>}

\* The provider redirects back: the page is loaded in a new history entry at
\* its address with the response, and the module calls getRedirectResponse
\* for the grant response as it is loaded.
PageLoad(response, referrerOrigin) ==
    /\ ~PageIsLoaded
    /\ \E address \in {HrefOf(RedirectQuery(ResponseEvent, response), << >>)} :
       \E out \in {RedirectResponse(address, referrerOrigin, EmptyObject, ResponseEvent,
                                    <<Pattern(GrantForApp)>>, <<Pattern(GrantForService)>>,
                                    NoOrigin)} :
          /\ href' = out.href
          /\ history' = [length |-> history.length + 1, cache |-> out.cache,
                          own |-> EmptyObject]
          /\ last' = [Task("load", 0, NoMessage, {}) EXCEPT
                          !.matched = [event |-> ResponseEvent,
                                       requiredKeys |-> <<Pattern(GrantForApp)>>,
                                       optionalKeys |-> <<Pattern(GrantForService)>>,
                                       origin |-> NoOrigin, href |-> address,
                                       result |-> out.result]]
    /\ referrer' = referrerOrigin
    /\ requested' = [requested EXCEPT !.returned = response]
    /\ UNCHANGED <<isIOSPlatform, store, windows, forms, listeners, req, assigned>>

NextRoundTrip ==
    \/ \E appId \in AppIds, services \in ServiceLists,
          preferredResponseType \in {REDIRECT, IMMEDIATE_REDIRECT},
          redirectRecoverableState \in RecoverableObjects :
            RequestGrants(appId, services, preferredResponseType, redirectRecoverableState)
    \/ \E response \in GrantResponses, referrerOrigin \in Referrers :
            PageLoad(response, referrerOrigin)
    \/ PageIsLoaded /\ GetRedirectGrantResponse

\* ids with an underscore: the app 42_s1 and the service s1_s2
RequestAppIds == AppIds \cup {<<"42", "_", "s1">>}
RequestServiceLists ==
    ServiceLists \cup {<<ServiceRequest(<<"s1", "_", "s2">>, << >>)>>}

\* requestGrants alone, as a popup and as a redirect
NextRequest ==
    \/ \E appId \in RequestAppIds, services \in RequestServiceLists,
          preferredResponseType \in {REDIRECT, IMMEDIATE_REDIRECT},
          redirectRecoverableState \in RecoverableObjects :
            RequestGrants(appId, services, preferredResponseType, redirectRecoverableState)
    \/ \E appId \in RequestAppIds, services \in RequestServiceLists,
          preferredResponseType \in {POST_MESSAGE, REDIRECT, IMMEDIATE_REDIRECT},
          redirectRecoverableState \in RecoverableObjects, popupOverlay \in BOOLEAN :
            RequestGrantsAsPopup(appId, services, preferredResponseType,
                                 redirectRecoverableState, popupOverlay)

\* sessionStorage when the page is loaded: empty, or with the entry an
\* earlier page of the session has written
SessionStores == {EmptyObject, SetKey(EmptyObject, <<"42">>, Js("string", "state-1"))}

InitRequest ==
    /\ isIOSPlatform \in BOOLEAN
    /\ store \in SessionStores
    /\ windows = << >>
    /\ forms = << >>
    /\ listeners = << >>
    /\ req = [r \in Requests |-> IdleRequest]
    /\ last = Task("load", 0, NoMessage, {})
    /\ assigned = << >>
    /\ requested = NoRequest
    /\ href = HrefOf(<< >>, << >>)
    /\ referrer = ""
    /\ history = NewHistory

SpecRequest == InitRequest /\ [][NextRequest]_vars

\* a page opened at its plain address
InitRoundTrip == Init /\ ~isIOSPlatform

SpecRoundTrip == InitRoundTrip /\ [][NextRoundTrip]_vars

(***************************************************************************)
(* Properties of the message-mode request                                  *)
(***************************************************************************)
Pending(r) == req[r].promise.state = "pending"
Settled(r) == req[r].promise.state \in {"resolved", "rejected"}
RejectedWith(r, message) ==
    req[r].promise.state = "rejected" /\ req[r].promise.error = message
SettledByMessage(r) ==
    \/ req[r].promise.state = "resolved"
    \/ RejectedWith(r, ExpectedResponseMissing)
    \/ RejectedWith(r, RequestRejected)

\* the current popup handle of the request is closed
PopupIsClosed(r) == req[r].popup \in DOMAIN windows /\ windows[req[r].popup].closed

\* a message from the provider's origin that carries the request's event
FromProvider(r, message) ==
    /\ message.origin = EndpointOrigin
    /\ message.isObject
    /\ EventKey \in DOMAIN message.data
    /\ message.data[EventKey] = req[r].options.responseEvent

HasStatus(message, statuses) ==
    StatusKey \in DOMAIN message.data /\ message.data[StatusKey] \in statuses

\* a key of the message matches the declared key: it is the declared name,
\* or the declared pattern covers it from its first to its last character
DeclaredKeyPresent(declared, message) ==
    IF declared.regexp
    THEN \E key \in DOMAIN message.data :
            /\ Len(key) > Len(declared.text)
            /\ \A i \in 1..Len(declared.text) : key[i] = declared.text[i]
    ELSE declared.text \in DOMAIN message.data

AllDeclaredKeysPresent(r, message) ==
    \A i \in 1..Len(req[r].options.requiredKeys.keys) :
        DeclaredKeyPresent(req[r].options.requiredKeys.keys[i], message)

\* the message passes the request's filter: the caller's, or else the default
\* one, which drops Error and Unknown
Qualifies(r, message) ==
    /\ FromProvider(r, message)
    /\ IF req[r].options.responseFilter = AcceptAll THEN TRUE
       ELSE IF req[r].options.responseFilter = SuccessOnly
            THEN HasStatus(message, {Success})
       ELSE ~HasStatus(message, {Error, Unknown})

\* the message's fields other than event and status
FieldsOf(message) ==
    [key \in (DOMAIN message.data) \ {EventKey, StatusKey} |-> message.data[key]]

OverlayClickIntervened(r) ==
    ~PopupIsClosed(r) \/ RejectedWith(r, PopupFailedToOpen)

IsRecoverableError(r, message) ==
    FromProvider(r, message) /\ HasStatus(message, {Error, Unknown})

C4_OtherStatusRejects ==
    [][\A r \in Requests :
        (/\ Pending(r)
         /\ req[r].options.responseFilter = NoFilter
         /\ last'.op = "message"
         /\ FromProvider(r, last'.message)
         /\ StatusKey \in DOMAIN last'.message.data
         /\ last'.message.data[StatusKey] \notin {<< >>, Success, Error, Unknown})
        => /\ RejectedWith(r, RequestRejected)'
           /\ req'[r].promise.cause = last'.message.data[StatusKey]]_vars

C4_Witness ==
    /\ last.op = "message"
    /\ HasStatus(last.message, {InvalidRequest})
    /\ req[1].options.responseFilter = NoFilter
    /\ RejectedWith(1, RequestRejected)
    /\ req[1].promise.cause = InvalidRequest

(***************************************************************************)
(* Properties of both channels                                             *)
(***************************************************************************)
\* the part of the address, search first and fragment second, whose event
\* parameter is the event: its parameters in order, none when no part has it
ResponsePart(address, event) ==
    LET carries(query) ==
            GetParam(URLSearchParams(query), EventKey) = [found |-> TRUE, value |-> event]
    IN  IF carries(SearchOf(address)) THEN URLSearchParams(SearchOf(address))
        ELSE IF carries(FragmentOf(address)) THEN URLSearchParams(FragmentOf(address))
        ELSE << >>

ParamKeys(entries) == {entries[i].key : i \in 1..Len(entries)}

StatusValues(entries) ==
    {entries[i].value : i \in {j \in 1..Len(entries) : entries[j].key = StatusKey}}

\* some key of the set matches the declared key
DeclaredKeyAmong(declared, keys) ==
    IF declared.regexp
    THEN \E key \in keys :
            /\ Len(key) > Len(declared.text)
            /\ \A i \in 1..Len(declared.text) : key[i] = declared.text[i]
    ELSE declared.text \in keys

\* the response in the address has no status, or has status Success and
\* lacks a key for one of the declared required keys
MalformedRedirect(entries, requiredKeys) ==
    \/ StatusValues(entries) = {}
    \/ /\ StatusValues(entries) = {Success}
       /\ \E i \in 1..Len(requiredKeys) :
              ~DeclaredKeyAmong(requiredKeys[i], ParamKeys(entries))

\* the message has no status, or has status Success and lacks a key for one
\* of the request's declared required keys
MalformedMessage(r, message) ==
    \/ StatusKey \notin DOMAIN message.data
    \/ HasStatus(message, {Success}) /\ ~AllDeclaredKeysPresent(r, message)

\* C5: a response without status, or with status Success but without a key
\* for some declared required key, is never delivered as a success.  A call
\* of getRedirectResponse that finds it in the address (the referrer check
\* passed, the address carries the event) throws the malformed-response
\* error.  A message of that kind for a pending message-mode request never
\* resolves the promise, and if it passes the request's filter it rejects the
\* promise with the malformed-response error.
C5_MalformedIsNeverSuccess ==
    /\ [][(/\ last'.op = "getRedirectResponse"
            /\ ~WrongReferrer(last'.matched.origin, referrer))
           => \A entries \in {ResponsePart(href, last'.matched.event)} :
                 (entries # << >> /\ MalformedRedirect(entries, last'.matched.requiredKeys))
                 => /\ last'.matched.result.outcome = "thrown"
                    /\ last'.matched.result.error = ExpectedResponseMissing]_vars
    /\ [][\A r \in Requests :
            (/\ Pending(r)
             /\ last'.op = "message"
             /\ FromProvider(r, last'.message)
             /\ MalformedMessage(r, last'.message))
            => /\ req'[r].promise.state # "resolved"
               /\ Qualifies(r, last'.message)
                     => RejectedWith(r, ExpectedResponseMissing)']_vars

\* the page came back with a Success response without the grant key, a call
\* requiring it has thrown, and a message-mode request of the same page was
\* rejected as malformed
C5_Witness ==
    /\ last.op = "getRedirectResponse"
    /\ last.matched.requiredKeys = <<Name(AppKey), Pattern(GrantForApp)>>
    /\ \E entries \in {ResponsePart(last.matched.href, last.matched.event)} :
          /\ StatusValues(entries) = {Success}
          /\ ParamKeys(entries) = {EventKey, StatusKey, AppKey}
    /\ last.matched.result.outcome = "thrown"
    /\ last.matched.result.error = ExpectedResponseMissing
    /\ href = last.matched.href
    /\ RejectedWith(1, ExpectedResponseMissing)
    /\ req[1].options.requiredKeys = RequiredKeys(<<Name(AppKey), Pattern(GrantForApp)>>)

(***************************************************************************)
(* Properties of the message-mode request, continued                       *)
(***************************************************************************)
\* C6: a message whose sender origin is not the provider's origin changes no
\* request (promise, listener, close check) and reaches no caller filter.
C6_ForeignOriginIsIgnored ==
    [][(last'.op = "message" /\ last'.message.origin # EndpointOrigin)
        => /\ req' = req
           /\ listeners' = listeners
           /\ last'.filterCalled = {}]_vars

C6_Witness ==
    /\ last.op = "message"
    /\ last.message.origin = ForeignOrigin
    /\ last.message.data = Response(Success, SetKey(EmptyObject, AppKey, Str("42"))).data
    /\ req[1].options.responseFilter = AcceptAll
    /\ Pending(1) /\ req[1].listening /\ req[1].closeCheckInterval

C8_SettledIsTornDown ==
    \A r \in Requests :
        Settled(r) =>
            /\ ~req[r].listening
            /\ \A i \in DOMAIN listeners : listeners[i] # r
            /\ ~req[r].closeCheckInterval
            /\ req[r].finallyRan
            /\ req[r].overlay.created =>
                  (req[r].overlay.removeTimer \/ ~req[r].overlay.inDom)

C8_Witness ==
    /\ RejectedWith(1, PopupClosed)
    /\ req[1].overlay.created
    /\ req[1].overlay.removeTimer
    /\ req[1].finallyRan

\* C9: message and close detection race.  A qualifying message processed
\* while the promise is pending settles it as a message does, also when the
\* popup is closed already; a close-check tick settles a pending promise if
\* and only if it finds the popup closed, with the popup-closed error; and
\* the first settlement stands.
C9_FirstEventDecides ==
    [][\A r \in Requests :
        /\ (Pending(r) /\ last'.op = "message" /\ Qualifies(r, last'.message))
              => SettledByMessage(r)'
        /\ (Pending(r) /\ last'.op = "closeCheck" /\ last'.request = r)
              => IF PopupIsClosed(r) THEN RejectedWith(r, PopupClosed)' ELSE Pending(r)'
        /\ Settled(r) => req'[r].promise = req[r].promise]_vars

C9_Witness ==
    /\ last.op = "message"
    /\ PopupIsClosed(1)
    /\ req[1].promise.state = "resolved"

\* C10: a pending request is settled only by a message task or by a
\* close-check tick.
C10_OnlyMessageOrCloseSettles ==
    [][\A r \in Requests :
        (Pending(r) /\ ~Pending(r)') => last'.op \in {"message", "closeCheck"}]_vars

(***************************************************************************)
(* Properties of the redirect channel                                      *)
(***************************************************************************)
\* the part of an address carries the event: its first event parameter is it
Carries(query, event) ==
    GetParam(URLSearchParams(query), EventKey) = [found |-> TRUE, value |-> event]

\* exactly one of search part and fragment carries the event
CarriedOnce(address, event) ==
    Carries(SearchOf(address), event) # Carries(FragmentOf(address), event)

\* the task was a call of getRedirectResponse that got past the referrer check
\* (referrer is never changed)
IsCall(task) ==
    task.op = "getRedirectResponse" /\ ~WrongReferrer(task.matched.origin, referrer)

\* the response in the address is a Success with a key for every required key
ValidRedirect(entries, requiredKeys) ==
    /\ entries # << >>
    /\ StatusValues(entries) = {Success}
    /\ \A i \in 1..Len(requiredKeys) :
          DeclaredKeyAmong(requiredKeys[i], ParamKeys(entries))

\* the same key specifications, in whatever order
SameKeys(a, b) ==
    Len(a) = Len(b) /\ {a[i] : i \in 1..Len(a)} = {b[i] : i \in 1..Len(b)}

\* the second of two calls in a row with the same event and key specifications
Repeats(first, second) ==
    /\ IsCall(first) /\ IsCall(second)
    /\ second.matched.event = first.matched.event
    /\ SameKeys(second.matched.requiredKeys, first.matched.requiredKeys)
    /\ SameKeys(second.matched.optionalKeys, first.matched.optionalKeys)

\* the second call returned the envelope the first returned, and left address
\* and history entry as they were
SecondFromCache ==
    /\ last.matched.result.outcome = "returned" /\ ~last.matched.result.isNull
    /\ last'.matched.result = last.matched.result
    /\ href' = href
    /\ history' = history

\* C11 as stated: on any address with a valid Success response for the
\* event, two calls in a row return the same envelope, the second from the
\* cache without touching the address.
C11_IdempotentOnAnyAddress ==
    [][Repeats(last, last')
        => \A entries \in {ResponsePart(last.matched.href, last.matched.event)} :
              ValidRedirect(entries, last.matched.requiredKeys) => SecondFromCache]_vars

\* C11: on an address that carries the event marker in one part only, and
\* there a valid Success response, two calls in a row with the same event and
\* the same key specifications in any order return the same envelope; the
\* second is served from the history entry's cache and leaves address and
\* history entry unchanged.
C11_Idempotent ==
    [][(Repeats(last, last') /\ CarriedOnce(last.matched.href, last.matched.event))
        => \A entries \in {ResponsePart(last.matched.href, last.matched.event)} :
              ValidRedirect(entries, last.matched.requiredKeys) => SecondFromCache]_vars

\* a call with the keys in the other order was served from the cache: the
\* address no longer carries the event and was not changed by the call
C11_Witness ==
    /\ IsCall(last)
    /\ last.matched.requiredKeys = <<Pattern(GrantForApp), Name(AppKey)>>
    /\ last.matched.href = href
    /\ ~Carries(SearchOf(href), last.matched.event)
    /\ ~Carries(FragmentOf(href), last.matched.event)
    /\ last.matched.result.outcome = "returned" /\ ~last.matched.result.isNull
    /\ {AppKey, GrantKey} \subseteq DOMAIN last.matched.result.response
    /\ <<"grant-response", "_required:", "/^", "grant-for-app-", ".+$/", ",", "app",
          ",", "status">> \in DOMAIN history.cache

\* the call extracted a response from the address: it found the marker and
\* returned an envelope
Extracted(address, task) ==
    /\ IsCall(task)
    /\ Carries(SearchOf(address), task.matched.event)
          \/ Carries(FragmentOf(address), task.matched.event)
    /\ task.matched.result.outcome = "returned" /\ ~task.matched.result.isNull

\* the key is the name of, or is matched in full by, one of the specifications
KeyDeclared(key, specs) ==
    \E i \in 1..Len(specs) : DeclaredKeyAmong(specs[i], {key})

\* the text of a part without the event marker and without the pairs whose
\* key matches status, a required or an optional specification: the other
\* parameters as they were written, in their order
Stripped(query, requiredKeys, optionalKeys) ==
    LET Keep(piece) ==
            /\ ParseEntry(piece).key # EventKey
            /\ ~KeyDeclared(ParseEntry(piece).key,
                            <<Name(StatusKey)>> \o requiredKeys \o optionalKeys)
    IN  Query(SelectSeq(Split(query, "&"), Keep))

\* C12: a successful extraction strips only the response.  The part that
\* carried the marker is left with exactly its other parameters, in their
\* original text and order; the rest of the address is as it was; and the
\* history has as many entries as before.
C12_StripsOnlyTheResponse ==
    [][Extracted(href, last')
        => /\ href'[1] = href[1]
           /\ history'.length = history.length
           /\ IF Carries(SearchOf(href), last'.matched.event)
              THEN /\ SearchOf(href') = Stripped(SearchOf(href), last'.matched.requiredKeys,
                                                 last'.matched.optionalKeys)
                   /\ FragmentOf(href') = FragmentOf(href)
              ELSE /\ FragmentOf(href') = Stripped(FragmentOf(href),
                                                   last'.matched.requiredKeys,
                                                   last'.matched.optionalKeys)
                   /\ SearchOf(href') = SearchOf(href)]_vars

\* C13: when the address carries the event marker and a status that is there
\* (a non-empty value) and is not Success, a call that gets past the referrer
\* check throws the provider-rejected error with that status as its cause.
C13_OtherStatusThrows ==
    [][IsCall(last')
        => \A entries \in {ResponsePart(href, last'.matched.event)} :
              \A status \in StatusValues(entries) :
                 (StatusValues(entries) = {status} /\ status \notin {Success, << >>})
                 => /\ last'.matched.result.outcome = "thrown"
                    /\ last'.matched.result.error = RequestRejected
                    /\ last'.matched.result.cause = status]_vars

C13_Witness ==
    /\ IsCall(last)
    /\ StatusValues(ResponsePart(last.matched.href, last.matched.event)) = {Unknown}
    /\ last.matched.result.outcome = "thrown"
    /\ last.matched.result.error = RequestRejected
    /\ last.matched.result.cause = Unknown
    /\ href = last.matched.href

\* C14: an envelope delivered to the caller, returned by getRedirectResponse
\* or resolved by a message-mode request, has neither event nor status.
C14_NoRoutingFields ==
    /\ (/\ last.op = "getRedirectResponse"
        /\ last.matched.result.outcome = "returned"
        /\ ~last.matched.result.isNull)
       => DOMAIN last.matched.result.response \cap {EventKey, StatusKey} = {}
    /\ \A r \in Requests :
          req[r].promise.state = "resolved"
          => DOMAIN req[r].promise.value \cap {EventKey, StatusKey} = {}

\* an origin is expected and the referring document, if there is one, is not
\* of that origin
ReferrerDiffers(origin) == origin # NoOrigin /\ referrer # origin

\* C15: a call with an expected origin on a page whose referrer is of another
\* origin, or that has no referrer, returns null and leaves the address and
\* the history entry as they were, whatever the address and the cache hold.
C15_WrongReferrerReturnsNull ==
    [][(last'.op = "getRedirectResponse" /\ ReferrerDiffers(last'.matched.origin))
        => /\ last'.matched.result = ReturnedNull
           /\ href' = href
           /\ history' = history]_vars

\* null although the fragment carries a response for the event and the cache
\* holds an envelope for the call's Response Identity
C15_Witness ==
    /\ last.op = "getRedirectResponse"
    /\ ReferrerDiffers(last.matched.origin)
    /\ referrer = ForeignOrigin
    /\ last.matched.result = ReturnedNull
    /\ Carries(FragmentOf(href), last.matched.event)
    /\ ResponseId(last.matched.event, WithStatus(last.matched.requiredKeys),
                  last.matched.optionalKeys) \in DOMAIN history.cache

(***************************************************************************)
(* Properties of the Recoverable-State Store and of RedirectBehavior.call  *)
(***************************************************************************)
\* C16: a read that follows a write of the same request id returns the value
\* written, and a read returns null only if the store has no entry for the
\* request id.
C16_RoundTrip ==
    /\ [][(/\ last.op = "setRecoverableState"
            /\ last'.op = "getRecoverableState"
            /\ last'.state.requestId = last.state.requestId)
           => last'.state.value = last.state.value]_vars
    /\ [][(last'.op = "getRecoverableState" /\ last'.state.value = JsNull)
           => last'.state.requestId \notin DOMAIN store]_vars

\* C17: a write for one request id leaves the entry of every other request id
\* as it was: it is neither removed nor overwritten, and a read of it returns
\* what it returned before.
C17_WriteTouchesOneEntry ==
    [][last'.op = "setRecoverableState"
        => \A other \in StoreRequestIds \ {last'.state.requestId} :
              /\ (other \in DOMAIN store') = (other \in DOMAIN store)
              /\ other \in DOMAIN store => store'[other] = store[other]
              /\ GetRecoverableState(store', other) = GetRecoverableState(store, other)]_vars

\* both entries are there, written one after the other, the longer id last
C17_Witness ==
    /\ last.op = "setRecoverableState"
    /\ last.state.requestId = <<"42", "_", "s1">>
    /\ last.state.value = Js("string", "state-1")
    /\ DOMAIN store = StoreRequestIds
    /\ store[<<"42">>] = Js("object", "{step: 1}")
    /\ store[<<"42", "_", "s1">>] = Js("string", "state-1")

\* C18: reading leaves the store as it is, with getRecoverableState and with
\* getRedirectGrantResponse, and a read that follows a read of the same
\* request id returns the same value.
C18_ReadsKeepTheStore ==
    /\ [][last'.op \in {"getRecoverableState", "getRedirectGrantResponse"}
           => store' = store]_vars
    /\ [][(/\ last.op \in {"getRecoverableState", "getRedirectGrantResponse"}
            /\ last'.op \in {"getRecoverableState", "getRedirectGrantResponse"}
            /\ last.state.requestId # << >>
            /\ last'.state.requestId = last.state.requestId)
           => last'.state.value = last.state.value]_vars

\* getRedirectGrantResponse has recovered the state of request 42_s1, and the
\* entry is still in the store
C18_Witness ==
    /\ last.op = "getRedirectGrantResponse"
    /\ last.state.requestId = <<"42", "_", "s1">>
    /\ last.state.value = Js("string", "state-1")
    /\ store[<<"42", "_", "s1">>] = Js("string", "state-1")
    /\ last.matched.href = href

\* a navigation side effect of RedirectBehavior.call
Navigation == {"postRequest", "location.assign"}

\* the call was given the recoverable-state pair
PairGiven(task) == task.op = "redirectCall" /\ task.arguments.hasRecoverableState

\* the store holds the pair of the call
HoldsPair(stored, task) ==
    /\ task.state.requestId \in DOMAIN stored
    /\ stored[task.state.requestId] = task.state.value

\* C19: when RedirectBehavior.call is given a recoverable-state pair, the store
\* holds the pair when a form submission or a location assignment starts, and
\* nothing is started before the write of the pair.
C19_StoredBeforeNavigation ==
    [][PairGiven(last')
        => /\ \A i \in DOMAIN last'.effects :
                 last'.effects[i].effect \in Navigation
                     => HoldsPair(last'.effects[i].stored, last')
           /\ last'.effects # << >>
           /\ last'.effects[1].effect = "setRecoverableState"
           /\ HoldsPair(store', last')]_vars

\* the pair of request 42_s1 was written to the store that held another
\* request's pair, and then the page was sent to the provider
C19_Witness ==
    /\ PairGiven(last)
    /\ last.state.requestId = <<"42", "_", "s1">>
    /\ Len(last.effects) = 2
    /\ <<"42", "_", "s1">> \notin DOMAIN last.effects[1].stored
    /\ <<"42">> \in DOMAIN last.effects[1].stored
    /\ last.effects[2].effect = "location.assign"
    /\ HoldsPair(last.effects[2].stored, last)
    /\ Len(assigned) = 2

\* the call returned, and left no listener, no timer of a request and no
\* window behind
ReturnedAtOnce(before, after) ==
    /\ after.last.thrown = NoError
    /\ after.listeners = before.listeners
    /\ after.req = before.req
    /\ after.windows = before.windows
    /\ Len(after.forms) + Len(after.assigned) = Len(before.forms) + Len(before.assigned) + 1

\* the part of the state a call of RedirectBehavior.call can touch
Page == [last |-> last, listeners |-> listeners, req |-> req, windows |-> windows,
         forms |-> forms, assigned |-> assigned]

OpensOrSubmits == {"window.open", "postRequest"}

\* C21: when PopupBehavior.call is given a recoverable-state pair, the write
\* of the pair is its first side effect and the store holds the pair when
\* window.open and the form submission start, for every preferred response
\* type, whether the popup opens or not.
C21_StoredBeforePopup ==
    [][(last'.op = "call" /\ last'.arguments.hasRecoverableState)
        => /\ last'.effects[1].effect = "setRecoverableState"
           /\ \A i \in DOMAIN last'.effects :
                 last'.effects[i].effect \in OpensOrSubmits
                     => /\ i > 1
                        /\ last'.arguments.requestId \in DOMAIN last'.effects[i].stored
                        /\ last'.effects[i].stored[last'.arguments.requestId]
                               = last'.arguments.recoverableState
           /\ \E i \in DOMAIN last'.effects : last'.effects[i].effect = "window.open"
           /\ last'.arguments.requestId \in DOMAIN store'
           /\ store'[last'.arguments.requestId] = last'.arguments.recoverableState]_vars

\* a call that prefers a redirect has stored the pair, opened the popup and
\* submitted the request into it
C21_Witness ==
    /\ last.op = "call"
    /\ last.arguments.hasRecoverableState
    /\ last.arguments.preferredResponseType = REDIRECT
    /\ Len(last.effects) >= 3
    /\ last.effects[1].effect = "setRecoverableState"
    /\ last.effects[1].stored = EmptyObject
    /\ last.effects[2].effect = "window.open"
    /\ last.effects[3].effect = "postRequest"
    /\ Len(windows) = 1 /\ Len(forms) = 1
    /\ store = SetKey(EmptyObject, last.arguments.requestId, last.arguments.recoverableState)

\* C22: a call whose popup the browser refuses throws the popup-failed-to-open
\* error and returns no promise; it submits no form, opens no window, shows
\* no overlay and registers no message listener and no poll.
C22_BlockedPopupThrows ==
    /\ [][(last'.op = "call" /\ Len(windows') = Len(windows))
           => \A r \in {last'.request} :
                 /\ last'.thrown = PopupFailedToOpen
                 /\ req'[r].phase = "thrown"
                 /\ req'[r].thrown = PopupFailedToOpen
                 /\ req'[r].promise = NoPromise
                 /\ forms' = forms
                 /\ listeners' = listeners
                 /\ req'[r].overlay = NoOverlay
                 /\ ~req'[r].listening
                 /\ ~req'[r].closeCheckInterval
                 /\ ~req'[r].overlayCheckInterval
                 /\ ~req'[r].onCallbackError
                 /\ last'.effects[Len(last'.effects)].effect = "window.open"]_vars
    /\ [][(last'.op = "call" /\ Len(windows') # Len(windows))
           => last'.thrown = NoError /\ req'[last'.request].phase # "thrown"]_vars

\* a message-mode call with data and overlay was refused its popup
C22_Witness ==
    /\ last.op = "call"
    /\ last.thrown = PopupFailedToOpen
    /\ last.arguments.preferredResponseType = POST_MESSAGE
    /\ last.arguments.overlay /\ last.arguments.hasData
    /\ req[last.request].phase = "thrown"
    /\ windows = << >> /\ forms = << >> /\ listeners = << >>

(***************************************************************************)
(* Properties of the redirect round trip                                   *)
(***************************************************************************)
\* the keys of a grant response to the request
GrantKeys(request) ==
    {GrantForApp \o request.appId}
    \cup {GrantForService \o request.services[i] : i \in DOMAIN request.services}

\* the address the page was loaded at carried a Success grant response with
\* the grant of the requested app and one grant for exactly each requested
\* service
AnswersRequest(request) ==
    \E entries \in {URLSearchParams(Query(request.returned))} :
        /\ StatusValues(entries) = {Success}
        /\ ParamKeys(entries) \ {StatusKey} = GrantKeys(request)
        /\ Len(entries) = 1 + Cardinality(GrantKeys(request))

\* requestGrants was called with a JSON object as redirectRecoverableState
WithRecoverableObject(request) == request.recoverableState.type = "object"

\* getRedirectGrantResponse returned a response with this recovered state
Recovered(task, value) ==
    /\ task.matched.result.outcome = "returned"
    /\ ~task.matched.result.isNull
    /\ task.state.value = value

ReturnedVoid(r) == req[r].phase = "returned"

\* C24: a call whose preferred response type is not post-message returns
\* with no result and registers no message listener, and no later message
\* changes anything of it; a requested overlay is shown, its removal starts
\* only when the poll sees the current popup closed, the poll is cleared in
\* that tick, and once the current popup is closed the overlay leaves the
\* document unless the popup is opened again first.
C24_VoidCallAndOverlay ==
    /\ [][\A r \in TwoRequests :
            (/\ last'.op = "call" /\ last'.request = r /\ last'.thrown = NoError
             /\ last'.arguments.preferredResponseType # POST_MESSAGE)
            => /\ req'[r].phase = "returned"
               /\ req'[r].promise = NoPromise
               /\ listeners' = listeners
               /\ ~req'[r].listening
               /\ ~req'[r].closeCheckInterval
               /\ ~req'[r].onCallbackError
               /\ req'[r].overlay =
                      (IF last'.arguments.overlay THEN AppendedOverlay ELSE NoOverlay)
               /\ req'[r].overlayCheckInterval = last'.arguments.overlay]_vars
    /\ [][\A r \in TwoRequests :
            (last'.op = "message" /\ ReturnedVoid(r)) => req'[r] = req[r]]_vars
    /\ [][\A r \in TwoRequests :
            (ReturnedVoid(r) /\ req'[r].overlay.removeTimer /\ ~req[r].overlay.removeTimer)
            => /\ last'.op = "overlayCloseCheck" /\ last'.request = r
               /\ PopupIsClosed(r)
               /\ req[r].overlayCheckInterval /\ ~req'[r].overlayCheckInterval]_vars
    /\ [][\A r \in TwoRequests :
            (ReturnedVoid(r) /\ req[r].overlayCheckInterval /\ ~req'[r].overlayCheckInterval)
            => req'[r].overlay.removeTimer]_vars
    /\ \A r \in TwoRequests :
          (ReturnedVoid(r) /\ req[r].overlay.created /\ PopupIsClosed(r))
          ~> (\/ ~req[r].overlay.inDom /\ ~req[r].overlayCheckInterval
              \/ ~PopupIsClosed(r))

\* the overlay of a call without response was removed after its popup was
\* closed, and a message for the other request, which is pending, was
\* dispatched
C24_Witness ==
    /\ last.op = "message"
    /\ \E r \in TwoRequests :
          /\ ReturnedVoid(r)
          /\ req[r].overlay.created /\ ~req[r].overlay.inDom
          /\ ~req[r].overlayCheckInterval
          /\ PopupIsClosed(r)
    /\ \E r \in TwoRequests : req[r].phase = "promised"

(***************************************************************************)
(* Properties of the overlay's controls                                    *)
(***************************************************************************)
\* the forms submitted into the window of that handle
SubmittedInto(submitted, handle) ==
    SelectSeq(submitted, LAMBDA form : form.target = handle)

\* C25: a click on the overlay where the popup cannot be focused closes the
\* request's popup, opens a new window at the same URL, makes it the
\* request's popup and submits into it the data of the original submission
\* (nothing if nothing was submitted); where the popup can be focused the
\* click changes no window, no handle and submits nothing.  When the browser
\* refuses the new window, the old one is closed and nothing is submitted.
C25_ClickRecreatesOrFocuses ==
    [][\A r \in Requests :
        (last'.op \in {"overlayClick", "overlayClickFailed"} /\ last'.request = r)
        => IF ~isIOSPlatform
           THEN /\ last'.op = "overlayClick"
                /\ windows' = windows /\ forms' = forms /\ req'[r] = req[r]
           ELSE IF last'.op = "overlayClick"
           THEN \E old \in {req[r].popup}, new \in {req'[r].popup} :
                /\ new = Len(windows) + 1 /\ Len(windows') = new
                /\ windows'[old].closed
                /\ ~windows'[new].closed
                /\ windows'[new].url = windows[old].url
                /\ \A h \in DOMAIN windows : h # old => windows'[h] = windows[h]
                /\ req' = [req EXCEPT ![r].popup = new]
                /\ \E original \in {SubmittedInto(forms, old)} :
                      /\ Len(original) <= 1
                      /\ forms' = forms
                                   \o [i \in DOMAIN original |->
                                          [original[i] EXCEPT !.target = new]]
                      /\ (original = << >>) = ~RequestData(req[r].options).defined
           ELSE /\ windows' = ClosePopup(windows, req[r].popup)
                /\ forms' = forms
                /\ req'[r].popup = req[r].popup]_vars

\* the popup of a request with payload and the post-message hint was opened
\* again: the second form carries the data of the first into the new window
C25_Witness ==
    /\ last.op = "overlayClick"
    /\ isIOSPlatform
    /\ Len(windows) = 2 /\ windows[1].closed /\ ~windows[2].closed
    /\ req[1].popup = 2
    /\ Len(forms) = 2
    /\ forms[1].target = 1 /\ forms[2].target = 2
    /\ forms[2].data = forms[1].data /\ forms[2].url = forms[1].url
    /\ forms[1].data.payload
    /\ forms[1].data.preferred_response_type = POST_MESSAGE

\* the popup of request r was opened again: with one request on the page,
\* every earlier window is an old handle of it
Recreated(r) == \E handle \in DOMAIN windows : handle < req[r].popup

\* the waiters of a request: its listener, its polls and its promise
Waiters(rq) ==
    [listening |-> rq.listening, closeCheckInterval |-> rq.closeCheckInterval,
     overlayCheckInterval |-> rq.overlayCheckInterval, promise |-> rq.promise,
     overlay |-> rq.overlay]

\* C26: the overlay click that opens the popup again leaves the listener,
\* the polls and the promise as they are; from then on the poll rejects with
\* the popup-closed error, and the overlay's removal starts, only in a tick
\* that finds the new handle closed, and a tick that finds it open changes
\* nothing although the old handle is closed; a qualifying message still
\* settles the request through the same listener.
C26_WaitersFollowNewHandle ==
    /\ [][\A r \in Requests :
            (last'.op = "overlayClick" /\ last'.request = r)
            => /\ Waiters(req'[r]) = Waiters(req[r])
               /\ listeners' = listeners]_vars
    /\ [][\A r \in Requests :
            (Recreated(r) /\ Pending(r) /\ RejectedWith(r, PopupClosed)')
            => last'.op = "closeCheck" /\ PopupIsClosed(r)]_vars
    /\ [][\A r \in Requests :
            (/\ Recreated(r) /\ ~PopupIsClosed(r)
             /\ last'.op \in {"closeCheck", "overlayCloseCheck"})
            => req'[r] = req[r]]_vars
    /\ [][\A r \in Requests :
            (/\ Recreated(r) /\ ReturnedVoid(r)
             /\ req'[r].overlay.removeTimer /\ ~req[r].overlay.removeTimer)
            => last'.op = "overlayCloseCheck" /\ PopupIsClosed(r)]_vars
    /\ [][\A r \in Requests :
            (/\ Recreated(r) /\ Pending(r)
             /\ last'.op = "message" /\ Qualifies(r, last'.message))
            => /\ SettledByMessage(r)'
               /\ r \notin {listeners'[i] : i \in DOMAIN listeners'}]_vars

\* after the popup was opened again and the new window was open, a Success
\* message resolved the request, whose old window is closed
C26_Witness ==
    /\ last.op = "message"
    /\ Recreated(1)
    /\ windows[1].closed /\ ~PopupIsClosed(1)
    /\ req[1].promise.state = "resolved"
    /\ req[1].finallyRan

BelongsTo(r, task) ==
    IF task.op = "message"
    THEN task.message.source = req[r].popup
    ELSE task.request = r

\* C28: a step changes a request only if it belongs to that request: a
\* message changes only the request whose popup posted it, a tick or a click
\* only its own request, and the popup-closed rejection comes only from the
\* closure of the request's own popup.
C28_RequestsAreIndependent ==
    /\ [][\A r \in TwoRequests : req'[r] # req[r] => BelongsTo(r, last')]_vars
    /\ [][\A r \in TwoRequests :
            (Pending(r) /\ RejectedWith(r, PopupClosed)') => PopupIsClosed(r)]_vars

(***************************************************************************)
(* Properties of the navigation RedirectBehavior.call starts               *)
(***************************************************************************)
\* the form that carries the payload of the call, and the preferred response
\* type if one is given, into the page's own window
FormOf(arguments) ==
    [url |-> RequestUrl,
     data |-> [defined |-> TRUE, payload |-> arguments.hasData,
               preferred_response_type |-> arguments.preferredResponseType],
     target |-> 0]

\* the one navigation of a call with these arguments
OneNavigation(arguments) ==
    IF arguments.hasData \/ arguments.preferredResponseType # NoResponseType
    THEN forms' = Append(forms, FormOf(arguments)) /\ assigned' = assigned
    ELSE assigned' = Append(assigned, RequestUrl) /\ forms' = forms

TakenFrom(response, query) ==
    \A key \in DOMAIN response :
        \E entries \in {URLSearchParams(query)} :
            \E i \in DOMAIN entries :
                entries[i].key = key /\ entries[i].value = response[key]

\* C30: a call that finds the event marker in the search part uses the search
\* part, whatever the fragment holds: an envelope has its fields from the
\* search part, only the search part is cleaned, the fragment stays as it
\* is, marker included, and an error of the search part is thrown without a
\* look at the fragment.  The fragment is used when the search part does not
\* carry the marker, and then the search part stays as it is.
C30_SearchPartFirst ==
    /\ [][(IsCall(last') /\ Carries(SearchOf(href), last'.matched.event))
           => /\ FragmentOf(href') = FragmentOf(href)
              /\ \E result \in {last'.matched.result} :
                    IF result.outcome = "thrown"
                    THEN href' = href /\ history' = history
                    ELSE /\ ~result.isNull
                         /\ TakenFrom(result.response, SearchOf(href))
                         /\ ~Carries(SearchOf(href'), last'.matched.event)
                         /\ SearchOf(href') # SearchOf(href)]_vars
    /\ [][(/\ IsCall(last')
            /\ ~Carries(SearchOf(href), last'.matched.event)
            /\ Carries(FragmentOf(href), last'.matched.event))
           => /\ SearchOf(href') = SearchOf(href)
              /\ \E result \in {last'.matched.result} :
                    result.outcome = "returned"
                        => /\ ~result.isNull
                           /\ TakenFrom(result.response, FragmentOf(href))
                           /\ ~Carries(FragmentOf(href'), last'.matched.event)]_vars

\* both parts carried the marker with different grants: the envelope has the
\* grant of the search part, the search part is cleaned and the fragment
\* still carries its response
C30_Witness ==
    /\ IsCall(last)
    /\ Carries(SearchOf(last.matched.href), last.matched.event)
    /\ Carries(FragmentOf(last.matched.href), last.matched.event)
    /\ last.matched.result.outcome = "returned" /\ ~last.matched.result.isNull
    /\ GrantKey \in DOMAIN last.matched.result.response
    /\ last.matched.result.response[GrantKey] = Str("abc")
    /\ SearchOf(href) = << >>
    /\ FragmentOf(href) = RedirectQuery(ResponseEvent,
                              <<StatusParam(Success), Param(GrantKey, Str("x"))>>)

(***************************************************************************)
(* The matcher called with key specifications that overlap: a key that is  *)
(* the name of one specification and matched by the pattern of another,    *)
(* and names whose strings read like another list of specifications        *)
(***************************************************************************)
\* the name 'app,grant-for-app-42' and the name '/^grant-for-app-.+$/'
BothKeys == AppKey \o <<",">> \o GrantKey
PatternText == <<"/^">> \o GrantForApp \o <<".+$/">>

MatcherRequiredKeyLists ==
    {<< >>, <<Pattern(GrantForApp)>>,
     <<Pattern(GrantForApp), Name(GrantKey)>>,
     <<Name(GrantKey), Pattern(GrantForApp)>>,
     <<Name(AppKey), Name(GrantKey)>>,
     <<Name(BothKeys)>>,
     <<Name(PatternText)>>}
MatcherOptionalKeyLists == {<< >>, <<Pattern(GrantForApp)>>, <<Name(PatternText)>>}

\* the page's plain address, a response in the search part, and a response
\* in each part
MatcherAddresses ==
    {HrefOf(<< >>, << >>),
     HrefOf(RedirectQuery(ResponseEvent, <<StatusParam(Success), GrantParam>>), << >>),
     HrefOf(RedirectQuery(ResponseEvent, FullResponse), << >>),
     HrefOf(RedirectQuery(ResponseEvent, <<StatusParam(Success), AppParam>>), << >>),
     HrefOf(RedirectQuery(ResponseEvent, FullResponse),
            RedirectQuery(ResponseEvent,
                          <<StatusParam(Success), Param(GrantKey, Str("x"))>>))}

\* what the page itself has attached to its history entry: nothing, or a
\* state with a field of its own
PageStates == {EmptyObject, SetKey(EmptyObject, Str("x"), Str("1"))}

InitMatcher ==
    /\ InitPopup
    /\ ~isIOSPlatform
    /\ href \in MatcherAddresses
    /\ referrer = ""
    /\ history \in {[NewHistory EXCEPT !.own = own] : own \in PageStates}

NextMatcher ==
    \E requiredKeys \in MatcherRequiredKeyLists, optionalKeys \in MatcherOptionalKeyLists :
        GetRedirectResponse(ResponseEvent, requiredKeys, optionalKeys, NoOrigin)

SpecMatcher == InitMatcher /\ [][NextMatcher]_vars

\* every required specification, status included, has a key among the
\* parameters that matches it
EverySpecMatched(entries, requiredKeys) ==
    \A i \in 1..Len(requiredKeys) :
        \E key \in ParamKeys(entries) : ExpectedKeyMatches(requiredKeys[i], key)

\* C31: a call that finds a response with status Success in the address
\* accepts it (returns its envelope) if and only if every required
\* specification has at least one parameter key that matches it, also when
\* one key matches several specifications.
C31_AcceptedIffEverySpecMatched ==
    [][IsCall(last')
        => \A entries \in {ResponsePart(href, last'.matched.event)} :
              StatusValues(entries) = {Success}
                  => (last'.matched.result.outcome = "returned"
                        <=> EverySpecMatched(entries,
                                             WithStatus(last'.matched.requiredKeys)))]_vars

\* C32: whenever a call finds the event marker in a part of the address,
\* that part has lost the marker when the call ends, whether the call returns
\* the envelope or throws the malformed-response or the provider-rejected
\* error: the address is replaced before the response is validated.
C32_CleanedAlsoOnFailure ==
    [][IsCall(last')
        => \A event \in {last'.matched.event} :
              /\ Carries(SearchOf(href), event) => ~Carries(SearchOf(href'), event)
              /\ (~Carries(SearchOf(href), event) /\ Carries(FragmentOf(href), event))
                    => ~Carries(FragmentOf(href'), event)]_vars

(***************************************************************************)
(* Properties of the cache                                                 *)
(***************************************************************************)
\* the Response Identity of a call: its event, the set of its required
\* specifications (status is always one) and the set of its optional ones
IdentityOf(call) ==
    [event |-> call.event,
     required |-> {WithStatus(call.requiredKeys)[i] :
                       i \in 1..Len(WithStatus(call.requiredKeys))},
     optional |-> {call.optionalKeys[i] : i \in 1..Len(call.optionalKeys)}]

\* the call found no marker in the address and returned an envelope of the
\* cache
ServedFromCache(address, task) ==
    /\ IsCall(task)
    /\ ~Carries(SearchOf(address), task.matched.event)
    /\ ~Carries(FragmentOf(address), task.matched.event)
    /\ task.matched.result.outcome = "returned" /\ ~task.matched.result.isNull

\* C33: a call is served from the cache only with an envelope that an
\* extraction with the same Response Identity stored.  When the cache holds
\* one envelope, stored by the call before, a call that is served from the
\* cache has the event, the set of required specifications and the set of
\* optional specifications of that call.
C33_CacheKeyedByIdentity ==
    [][(/\ Extracted(last.matched.href, last)
        /\ Cardinality(DOMAIN history.cache) = 1
        /\ ServedFromCache(href, last'))
       => IdentityOf(last'.matched) = IdentityOf(last.matched)]_vars

\* C34: an extraction that caches its envelope keeps the other fields of the
\* history state, adds no history entry, and keeps the envelopes cached
\* earlier under other Response Identities: every other entry of the
\* reserved field is as it was, and the envelope the call before extracted
\* under another Response Identity is still the one the cache holds for
\* that identity.
C34_CachingKeepsTheRest ==
    [][Extracted(href, last')
        => /\ history'.own = history.own
           /\ history'.length = history.length
           /\ \A id \in DOMAIN history.cache :
                 id # ResponseId(last'.matched.event, WithStatus(last'.matched.requiredKeys),
                                 last'.matched.optionalKeys)
                     => id \in DOMAIN history'.cache /\ history'.cache[id] = history.cache[id]
           /\ (/\ Extracted(last.matched.href, last)
               /\ IdentityOf(last.matched) # IdentityOf(last'.matched))
                 => CachedResponse(history'.cache,
                                   ResponseId(last.matched.event,
                                              WithStatus(last.matched.requiredKeys),
                                              last.matched.optionalKeys))
                       = last.matched.result]_vars

(***************************************************************************)
(* Properties of the caller's filter                                       *)
(***************************************************************************)
\* the request's own filter lets the message pass
FilterAccepts(r, message) ==
    \/ req[r].options.responseFilter = AcceptAll
    \/ req[r].options.responseFilter = SuccessOnly /\ HasStatus(message, {Success})

\* C35: for a pending request with a caller-supplied filter, a message from
\* the provider's origin with the request's event is handed to the filter,
\* and the filter alone decides: a message it rejects leaves the request as
\* it was, pending and listening, and a message with status Error or Unknown
\* that it accepts rejects the promise with the provider-rejected error,
\* whose cause is that status.
C35_FilterAloneDecides ==
    [][\A r \in Requests :
        (/\ Pending(r)
         /\ req[r].options.responseFilter # NoFilter
         /\ last'.op = "message"
         /\ FromProvider(r, last'.message))
        => /\ r \in last'.filterCalled
           /\ ~FilterAccepts(r, last'.message)
                 => req'[r] = req[r] /\ Pending(r)' /\ req'[r].listening
                    /\ listeners' = listeners
           /\ (FilterAccepts(r, last'.message) /\ HasStatus(last'.message, {Error, Unknown}))
                 => /\ RejectedWith(r, RequestRejected)'
                    /\ req'[r].promise.cause = last'.message.data[StatusKey]]_vars

\* a message with status Unknown rejected the request whose filter accepts
\* every message
C35_Witness ==
    /\ last.op = "message"
    /\ FromProvider(1, last.message)
    /\ HasStatus(last.message, {Unknown})
    /\ req[1].options.responseFilter = AcceptAll
    /\ 1 \in last.filterCalled
    /\ RejectedWith(1, RequestRejected)
    /\ req[1].promise.cause = Unknown

(***************************************************************************)
(* Properties of requestGrants                                             *)
(***************************************************************************)
\* the request lists a service id twice, or a usage id twice within a service
NamedTwice(services) ==
    \/ \E i, j \in DOMAIN services :
          i # j /\ services[i].serviceId = services[j].serviceId
    \/ \E s \in DOMAIN services :
          \E i, j \in DOMAIN services[s].usages :
              i # j /\ services[s].usages[i] = services[s].usages[j]

\* C36: requestGrants with a service id listed twice, or a usage id listed
\* twice within one service, as a popup or as a redirect, throws the
\* request-invalid error and has no side effect: the store, the windows, the
\* submitted forms, the navigations, the address, the listeners and the
\* requests are as before.
C36_InvalidRequestHasNoEffect ==
    [][(last'.op \in {"requestGrants", "call"} /\ NamedTwice(last'.arguments.data.services))
        => /\ last'.thrown = RequestInvalid
           /\ store' = store
           /\ windows' = windows
           /\ forms' = forms
           /\ assigned' = assigned
           /\ href' = href
           /\ listeners' = listeners
           /\ req' = req]_vars

\* a request with a usage named twice threw after an earlier request had
\* opened a popup and stored its state: nothing was added
C36_Witness ==
    /\ last.op = "requestGrants"
    /\ last.thrown = RequestInvalid
    /\ last.arguments.data.services = <<ServiceRequest(Str("s1"), <<"u1", "u1">>)>>
    /\ Len(windows) = 1 /\ Len(forms) = 1 /\ assigned = << >>
    /\ <<"42", "_", "s1">> \in DOMAIN store

WroteState(task) ==
    /\ task.op \in {"requestGrants", "call"}
    /\ task.thrown # RequestInvalid
    /\ task.arguments.hasRecoverableState

\* the subjects of a request: its app id and the set of its service ids
Subjects(request) ==
    [app |-> request.app,
     services |-> {request.services[i].serviceId : i \in DOMAIN request.services}]

\* C38: two requests with different subjects (another app id, or another set
\* of service ids) have different request ids and so write different entries
\* of the store: after the second of two consecutive requests with a
\* recoverable state, the entry of the first still holds its state.
C38_DifferentSubjectsDifferentIds ==
    [][(/\ WroteState(last) /\ WroteState(last')
        /\ Subjects(last.arguments.data) # Subjects(last'.arguments.data))
       => /\ last'.arguments.requestId # last.arguments.requestId
          /\ store'[last.arguments.requestId] = last.arguments.recoverableState]_vars

(***************************************************************************)
(* Properties of a popup call that fails after it has stored its state     *)
(***************************************************************************)
\* C39: a popup call with a recoverable-state pair whose popup is blocked
\* throws the popup-failed-to-open error after it has written the pair: the
\* write is noted before window.open, which is the statement the call ends
\* with, no window and no form is added, and the store after the call is the
\* store before it with the pair merged in, so it differs from the store
\* before unless that held the same pair.  No step takes an entry out of the
\* store.
C39_FailedCallStoresThePair ==
    /\ [][(/\ last'.op = "call" /\ last'.thrown = PopupFailedToOpen
            /\ last'.arguments.hasRecoverableState)
           => \A requestId \in {last'.arguments.requestId} :
                 /\ windows' = windows /\ forms' = forms
                 /\ Len(last'.effects) = 2
                 /\ last'.effects[1].effect = "setRecoverableState"
                 /\ last'.effects[2].effect = "window.open"
                 /\ last'.effects[2].stored = store'
                 /\ DOMAIN store' = DOMAIN store \cup {requestId}
                 /\ store'[requestId] = last'.arguments.recoverableState
                 /\ \A other \in DOMAIN store \ {requestId} : store'[other] = store[other]
                 /\ (requestId \notin DOMAIN store
                        \/ store[requestId] # last'.arguments.recoverableState)
                       => store' # store]_vars
    /\ [][DOMAIN store \subseteq DOMAIN store']_vars

\* a blocked call has added its pair to the store of the session: no window
\* is open, and the store holds the earlier entry and the new one
C39_Witness ==
    /\ last.op = "call" /\ last.thrown = PopupFailedToOpen
    /\ last.arguments.hasRecoverableState
    /\ windows = << >> /\ forms = << >>
    /\ req[1].phase = "thrown"
    /\ last.effects[1].stored = SetKey(EmptyObject, <<"42">>, Js("string", "state-1"))
    /\ DOMAIN store = {<<"42">>, <<"42", "_", "s1">>}
    /\ store[<<"42", "_", "s1">>] = last.arguments.recoverableState

(***************************************************************************)
(* Properties of a second caller                                           *)
(***************************************************************************)
\* C40: once a call has extracted the response for an event, a later call
\* for that event with a different Response Identity returns null: the call
\* that follows an extraction, with the same event and another set of
\* required or optional specifications, returns null.
C40_OtherIdentityGetsNull ==
    [][(/\ Extracted(last.matched.href, last)
        /\ IsCall(last')
        /\ last'.matched.event = last.matched.event
        /\ IdentityOf(last'.matched) # IdentityOf(last.matched))
       => last'.matched.result = ReturnedNull]_vars

====
